---- MODULE Spec2Model ----
(***************************************************************************)
(* BASTION risk engine and session lifecycle.                              *)
(*                                                                         *)
(* Prices and amounts are exact rationals <<n, d>> (d > 0, lowest terms):  *)
(* the Python code computes them in floating point, and the properties     *)
(* below are about the arithmetic the code writes down, not about rounding.*)
(***************************************************************************)
EXTENDS Integers, Sequences, FiniteSets, TLC

VARIABLES
    session,   \* the one entry of SessionManager._sessions, or NoSession
    ret,       \* outcome of the last session operation
    gline,     \* guarding-line parameters {slope, intercept, activation_bar}
    gdir,      \* direction of the position the line guards
    gbars,     \* bars_since_entry of the latest get_current_level call
    gret,      \* the last guarding-line operation and whether it changed the line
    mstate,    \* a MomentumState object
    mdir,      \* direction of the position the momentum trail follows
    mret,      \* what the last MomentumTrailingTP.update call was given and returned
    engine,    \* which RiskEngine manages the position: risk_engine.py or engine.py
    levels,    \* the RiskLevels object of the position
    momentum_states,  \* RiskEngine._momentum_states: key -> MomentumState
    result,    \* the RiskUpdate the last update_position call returned
    steps,     \* the exit fields of that result after each block of the call
    call,      \* the PositionUpdate and session_id of that call
    be_moves,  \* number of calls so far that reported moved_to_breakeven
    setup,     \* the arguments and configuration of a calculate_risk_levels call
    computed,  \* what that call returned (a RiskLevels) or that it raised
    ltp,       \* the fields of a LivingTakeProfit object
    tpret,     \* what its last update_targets call was given and returned
    pair       \* two positions managed by one RiskEngine, each also by one of its own

sessionVars == <<session, ret>>
guardVars == <<gline, gdir, gbars, gret>>
momentumVars == <<mstate, mdir, mret>>
engineVars == <<engine, levels, momentum_states, result, steps, call, be_moves>>
levelsVars == <<setup, computed>>
tpVars == <<ltp, tpret>>
pairVars == <<pair>>

vars == <<session, ret, gline, gdir, gbars, gret, mstate, mdir, mret,
          engine, levels, momentum_states, result, steps, call, be_moves,
          setup, computed, ltp, tpret, pair>>

nonSessionVars == <<guardVars, momentumVars, engineVars, levelsVars, tpVars, pairVars>>
nonGuardVars == <<sessionVars, momentumVars, engineVars, levelsVars, tpVars, pairVars>>
nonMomentumVars == <<sessionVars, guardVars, engineVars, levelsVars, tpVars, pairVars>>
nonEngineVars == <<sessionVars, guardVars, momentumVars, levelsVars, tpVars, pairVars>>
nonLevelsVars == <<sessionVars, guardVars, momentumVars, engineVars, tpVars, pairVars>>
nonTpVars == <<sessionVars, guardVars, momentumVars, engineVars, levelsVars, pairVars>>
nonPairVars == <<sessionVars, guardVars, momentumVars, engineVars, levelsVars, tpVars>>

-----------------------------------------------------------------------------
(* Exact rational arithmetic                                               *)

Abs(x) == IF x < 0 THEN -x ELSE x

RECURSIVE Gcd(_, _)
Gcd(a, b) ==
    IF b = 0 THEN a
    ELSE CHOOSE g \in { Gcd(p[1], p[2]) : p \in {<<b, a % b>>} } : TRUE

Rat(n, d) ==
    LET s == IF d < 0 THEN -1 ELSE 1
        g == Gcd(Abs(n), Abs(d))
    IN  IF n = 0 THEN <<0, 1>> ELSE <<(s * n) \div g, (s * d) \div g>>

RInt(n) == <<n, 1>>
RZero == <<0, 1>>
RAdd(a, b) ==
    LET g == Gcd(a[2], b[2])
    IN  Rat(a[1] * (b[2] \div g) + b[1] * (a[2] \div g), (a[2] \div g) * b[2])
RNeg(a) == <<-a[1], a[2]>>
RSub(a, b) == RAdd(a, RNeg(b))
RMul(a, b) ==
    IF a[1] = 0 \/ b[1] = 0 THEN <<0, 1>>
    ELSE LET g1 == Gcd(Abs(a[1]), b[2])
             g2 == Gcd(Abs(b[1]), a[2])
         IN  <<(a[1] \div g1) * (b[1] \div g2), (a[2] \div g2) * (b[2] \div g1)>>
RDiv(a, b) == RMul(a, Rat(b[2], b[1]))
RAbs(a) == <<Abs(a[1]), a[2]>>
\* comparison by integer parts, then by the reciprocals of the fractional parts
RECURSIVE RLt(_, _)
RLt(a, b) ==
    \E v \in {<<a[1] \div a[2], b[1] \div b[2], a[1] % a[2], b[1] % b[2],
                a[2], b[2]>>} :
        IF v[1] # v[2] THEN v[1] < v[2]
        ELSE IF v[3] = 0 THEN v[4] > 0
        ELSE IF v[4] = 0 THEN FALSE
        ELSE \E w \in {<< <<v[6], v[4]>>, <<v[5], v[3]>> >>} : RLt(w[1], w[2])
RLe(a, b) == ~RLt(b, a)
RGt(a, b) == RLt(b, a)
RGe(a, b) == ~RLt(a, b)
RMax(a, b) == IF RLt(a, b) THEN b ELSE a
RMin(a, b) == IF RLt(b, a) THEN b ELSE a
\* x percent as a factor: Pct(3, 10) is 0.3 / 100
Pct(n, d) == Rat(n, d * 100)

-----------------------------------------------------------------------------
(* Series helpers and least squares (numpy.polyfit of degree 1)            *)

RECURSIVE SumSeq(_)
SumSeq(q) == IF q = <<>> THEN 0 ELSE q[1] + SumSeq(Tail(q))

SeqMin(q) == CHOOSE v \in {q[i] : i \in 1..Len(q)} : \A j \in 1..Len(q) : v <= q[j]
SeqMax(q) == CHOOSE v \in {q[i] : i \in 1..Len(q)} : \A j \in 1..Len(q) : v >= q[j]

\* q[:n]
Prefix(q, n) == SubSeq(q, 1, IF n < Len(q) THEN n ELSE Len(q))
\* q[-n:]
Suffix(q, n) == IF n >= Len(q) THEN q ELSE SubSeq(q, Len(q) - n + 1, Len(q))

\* slope and intercept of the least-squares line through (xs[i], ys[i])
PolyfitDen(xs) == Len(xs) * SumSeq([i \in 1..Len(xs) |-> xs[i] * xs[i]]) - SumSeq(xs) * SumSeq(xs)

PolyfitSlope(xs, ys) ==
    Rat(Len(xs) * SumSeq([i \in 1..Len(xs) |-> xs[i] * ys[i]]) - SumSeq(xs) * SumSeq(ys),
        PolyfitDen(xs))

PolyfitIntercept(xs, ys) ==
    Rat(SumSeq(ys) * SumSeq([i \in 1..Len(xs) |-> xs[i] * xs[i]])
          - SumSeq(xs) * SumSeq([i \in 1..Len(xs) |-> xs[i] * ys[i]]),
        PolyfitDen(xs))

\* numpy.arange(n): 0 .. n-1
Arange(n) == [i \in 1..n |-> i - 1]

-----------------------------------------------------------------------------
(* Guarding line: GuardingLineManager (risk_engine.py) and GuardingLine    *)
(* (guarding_line.py)                                                      *)

\* RiskEngineConfig.guarding_activation_bars, guarding_buffer_pct = 0.3
GuardingActivationBars == 10
GuardingBufferPct == Pct(3, 10)
\* GuardingLineManager.min_slope_pct = 0.05, max_slope_pct = 0.5
MinSlopePct == Pct(5, 100)
MaxSlopePct == Pct(5, 10)
Lookback == 20

NoLine == [kind |-> "none"]

\* indices (0-based) of the fractal swing lows (long) or highs (short)
SwingIndices(prices, direction) ==
    IF Len(prices) < 5 THEN {}
    ELSE { i \in 2..(Len(prices) - 3) :
             IF direction = "long"
               THEN /\ prices[i+1] < prices[i]   /\ prices[i+1] < prices[i-1]
                    /\ prices[i+1] < prices[i+2] /\ prices[i+1] < prices[i+3]
               ELSE /\ prices[i+1] > prices[i]   /\ prices[i+1] > prices[i-1]
                    /\ prices[i+1] > prices[i+2] /\ prices[i+1] > prices[i+3] }

RECURSIVE SortedSeq(_)
SortedSeq(S) ==
    IF S = {} THEN <<>>
    ELSE LET m == CHOOSE x \in S : \A y \in S : x <= y
         IN  <<m>> \o SortedSeq(S \ {m})

\* swing points as a pair of sequences <<indices, prices>>
FindSwingPoints(prices, direction) ==
    LET idx == SortedSeq(SwingIndices(prices, direction))
    IN  <<idx, [k \in 1..Len(idx) |-> prices[idx[k] + 1]]>>

CalculateDynamicSlope(swing, entry) ==
    IF Len(swing[1]) < 2 THEN RMul(RInt(entry), MinSlopePct)
    ELSE PolyfitSlope(swing[1], swing[2])

\* slope forced to the trade direction, at least min_slope_pct and at most
\* max_slope_pct of entry per bar
ClampSlope(slope, direction, entry) ==
    LET min_slope == RMul(RInt(entry), MinSlopePct)
        max_slope == RMul(RInt(entry), MaxSlopePct)
        directed  == IF direction = "long"
                       THEN RMax(RMax(RZero, slope), min_slope)
                       ELSE RMin(RMin(RZero, slope), RNeg(min_slope))
    IN  RMax(RNeg(max_slope), RMin(max_slope, directed))

GuardingLineManager_calculate_initial_line(entry, direction, price_data) ==
    IF Len(price_data) < 5
      THEN [kind |-> "line",
            slope |-> IF direction = "long" THEN RMul(RInt(entry), MinSlopePct)
                      ELSE RNeg(RMul(RInt(entry), MinSlopePct)),
            intercept |-> RMul(RInt(entry), IF direction = "long" THEN Rat(97, 100)
                                            ELSE Rat(103, 100)),
            activation_bar |-> GuardingActivationBars]
      ELSE LET recent == Prefix(price_data, Lookback)
               swing  == FindSwingPoints(recent, direction)
               raw    == IF Len(swing[1]) >= 2
                           THEN CalculateDynamicSlope(swing, entry)
                           ELSE PolyfitSlope(Arange(Len(recent)), recent)
               base   == IF direction = "long" THEN SeqMin(recent) ELSE SeqMax(recent)
           IN  [kind |-> "line",
                slope |-> ClampSlope(raw, direction, entry),
                intercept |-> IF direction = "long"
                                THEN RMul(RInt(base), RSub(RInt(1), GuardingBufferPct))
                                ELSE RMul(RInt(base), RAdd(RInt(1), GuardingBufferPct)),
                activation_bar |-> GuardingActivationBars]

GuardingLine_calculate_initial_line(entry, direction, price_data) ==
    IF Len(price_data) < 5
      THEN [kind |-> "line", slope |-> RZero,
            intercept |-> RMul(RInt(entry), IF direction = "long" THEN Rat(97, 100)
                                            ELSE Rat(103, 100)),
            activation_bar |-> GuardingActivationBars]
      ELSE LET recent == Prefix(price_data, Lookback)
               swing  == FindSwingPoints(recent, direction)
               xs     == IF Len(swing[1]) < 2 THEN Arange(Len(recent)) ELSE swing[1]
               ys     == IF Len(swing[1]) < 2 THEN recent ELSE swing[2]
               slope  == PolyfitSlope(xs, ys)
               icpt   == PolyfitIntercept(xs, ys)
           IN  [kind |-> "line",
                slope |-> IF direction = "long" THEN RMax(RZero, slope)
                          ELSE RMin(RZero, slope),
                intercept |-> IF direction = "long"
                                THEN RMul(icpt, RSub(RInt(1), GuardingBufferPct))
                                ELSE RMul(icpt, RAdd(RInt(1), GuardingBufferPct)),
                activation_bar |-> GuardingActivationBars]

\* the same code in GuardingLineManager and in GuardingLine
get_current_level(line, bars_since_entry) ==
    IF bars_since_entry < line.activation_bar
      THEN IF RGe(line.slope, RZero) THEN RMul(line.intercept, Rat(9, 10))
           ELSE RMul(line.intercept, Rat(11, 10))
      ELSE RAdd(line.intercept,
                RMul(line.slope, RInt(bars_since_entry - line.activation_bar)))

check_break(current_price, guarding_level, direction) ==
    IF direction = "long" THEN RLt(current_price, guarding_level)
    ELSE IF direction = "short" THEN RGt(current_price, guarding_level)
    ELSE FALSE

\* GuardingLine.update_line: tighten the line to recent structure
update_line(line, direction, recent_prices, bars_since_entry) ==
    LET current_level == get_current_level(line, bars_since_entry)
        recent == Prefix(recent_prices, 10)
    IN  IF bars_since_entry < line.activation_bar THEN line
        ELSE IF Len(recent_prices) < 5 THEN line
        ELSE IF direction = "long"
          THEN IF RGt(RInt(SeqMin(recent)), RMul(current_level, Rat(101, 100)))
                 THEN [line EXCEPT
                         !.intercept = RMul(RInt(SeqMin(recent)),
                                            RSub(RInt(1), GuardingBufferPct)),
                         !.slope = RMax(RZero, @)]
                 ELSE line
          ELSE IF RLt(RInt(SeqMax(recent)), RMul(current_level, Rat(99, 100)))
                 THEN [line EXCEPT
                         !.intercept = RMul(RInt(SeqMax(recent)),
                                            RAdd(RInt(1), GuardingBufferPct)),
                         !.slope = RMin(RZero, @)]
                 ELSE line

\* a new slope is adopted whatever its direction
update_slope_any(line, swing, direction, entry) ==
    IF Len(swing[1]) < 2 THEN line
    ELSE [line EXCEPT !.slope = CalculateDynamicSlope(swing, entry)]

\* GuardingLineManager.update_slope: adopt a steeper slope from new swings
update_slope(line, swing, direction, entry) ==
    IF Len(swing[1]) < 2 THEN line
    ELSE LET new_slope == CalculateDynamicSlope(swing, entry)
         IN  IF direction = "long" /\ RGt(new_slope, line.slope)
               THEN [line EXCEPT !.slope = new_slope]
             ELSE IF direction = "short" /\ RLt(new_slope, line.slope)
               THEN [line EXCEPT !.slope = new_slope]
             ELSE line

-----------------------------------------------------------------------------
(* MomentumTrailingTP (risk_engine.py)                                     *)

\* constructor defaults
MinRToActivate == 1
MinSlopeToActivate == Rat(2, 1000)
MinBufferPct == Rat(15, 100)
MaxBufferPct == Rat(15, 10)
SlopeLookback == 5
BodyBufferPct == Rat(1, 10)
MinStrengthToActivate == Rat(3, 10)
WrongDirectionPenalty == Rat(3, 10)

RECURSIVE RSumSeq(_)
RSumSeq(q) == IF q = <<>> THEN RZero ELSE RAdd(q[1], RSumSeq(Tail(q)))

RSquare(a) == RMul(a, a)

\* MomentumState()
NewMomentumState ==
    [active |-> FALSE, trailing_level |-> RZero, slope |-> RZero,
     slope_strength |-> RZero, bars_in_momentum |-> 0, peak_price |-> RZero,
     trail_buffer_pct |-> RZero, last_candle_body_high |-> RZero,
     last_candle_body_low |-> RZero, activation_r |-> RZero]

\* <<slope_pct, strength>> of the last slope_lookback closes
calculate_slope(closes, direction) ==
    IF Len(closes) < 3 THEN <<RZero, RZero>>
    ELSE
      LET recent    == Suffix(closes, SlopeLookback)
          n         == Len(recent)
          x         == Arange(n)
          slope     == PolyfitSlope(x, recent)
          intercept == PolyfitIntercept(x, recent)
          avg_price == Rat(SumSeq(recent), n)
          slope_pct == IF RGt(avg_price, RZero)
                         THEN RMul(RDiv(slope, avg_price), RInt(100)) ELSE RZero
          ss_res    == RSumSeq([i \in 1..n |->
                          RSquare(RSub(RInt(recent[i]),
                                       RAdd(RMul(slope, RInt(x[i])), intercept)))])
          ss_tot    == RSumSeq([i \in 1..n |-> RSquare(RSub(RInt(recent[i]), avg_price))])
          r_raw     == IF RGt(ss_tot, RZero)
                         THEN RSub(RInt(1), RDiv(ss_res, ss_tot)) ELSE RZero
          r_squared == RMax(RZero, RMin(RInt(1), r_raw))
          strength  == RMin(RInt(1), RMul(RAbs(slope_pct), r_squared))
          wrong     == \/ direction = "long" /\ RLt(slope, RZero)
                       \/ direction = "short" /\ RGt(slope, RZero)
      IN  <<slope_pct, IF wrong THEN RMul(strength, WrongDirectionPenalty) ELSE strength>>

calculate_trail_buffer(slope_strength) ==
    LET buffer_range == RSub(MaxBufferPct, MinBufferPct)
        buffer == RSub(MaxBufferPct, RMul(slope_strength, buffer_range))
    IN  RMax(MinBufferPct, RMin(MaxBufferPct, buffer))

CandleBodyLow(c) == IF c.open < c.close THEN c.open ELSE c.close
CandleBodyHigh(c) == IF c.open > c.close THEN c.open ELSE c.close

\* trail_wicks is False: the reference is the candle bodies
calculate_trail_level(current_price, direction, recent_candles, buffer_pct) ==
    IF recent_candles = <<>>
      THEN IF direction = "long"
             THEN RMul(current_price, RSub(RInt(1), RDiv(buffer_pct, RInt(100))))
             ELSE RMul(current_price, RAdd(RInt(1), RDiv(buffer_pct, RInt(100))))
      ELSE
        LET recent == Suffix(recent_candles, 3)
        IN  IF direction = "long"
              THEN LET reference_price ==
                         SeqMin([i \in 1..Len(recent) |-> CandleBodyLow(recent[i])])
                       trail_level == RMul(RInt(reference_price),
                                           RSub(RInt(1), RDiv(BodyBufferPct, RInt(100))))
                       max_trail == RMul(current_price,
                                         RSub(RInt(1), RDiv(MinBufferPct, RInt(100))))
                   IN  RMin(trail_level, max_trail)
              ELSE LET reference_price ==
                         SeqMax([i \in 1..Len(recent) |-> CandleBodyHigh(recent[i])])
                       trail_level == RMul(RInt(reference_price),
                                           RAdd(RInt(1), RDiv(BodyBufferPct, RInt(100))))
                       min_trail == RMul(current_price,
                                         RAdd(RInt(1), RDiv(MinBufferPct, RInt(100))))
                   IN  RMax(trail_level, min_trail)

\* the trail follows every recalculated level, in either direction
RatchetTrailFollows(direction, trailing_level, new_trail) == new_trail

\* the trail only moves in the favourable direction
RatchetTrail(direction, trailing_level, new_trail) ==
    IF direction = "long"
      THEN IF RGt(new_trail, trailing_level) THEN new_trail ELSE trailing_level
      ELSE IF RLt(new_trail, trailing_level) THEN new_trail ELSE trailing_level

\* long: price below the trail; short: price above it
TrailBroken(direction, current_price, trailing_level) ==
    \/ direction = "long" /\ RLt(current_price, trailing_level)
    \/ direction = "short" /\ RGt(current_price, trailing_level)

\* MomentumTrailingTP.update once calculate_slope has returned sl = <<slope_pct,
\* strength>>: [state, should_exit]
UpdateWithSlope(state, current_price, current_r, direction, recent_candles, sl) ==
        IF ~state.active
          THEN IF /\ RGe(current_r, RInt(MinRToActivate))
                  /\ RGe(RAbs(sl[1]), MinSlopeToActivate)
                  /\ RGe(sl[2], MinStrengthToActivate)
                 THEN [state |->
                         [state EXCEPT
                            !.active = TRUE,
                            !.activation_r = current_r,
                            !.slope = sl[1],
                            !.slope_strength = sl[2],
                            !.peak_price = current_price,
                            !.bars_in_momentum = 0,
                            !.trail_buffer_pct = calculate_trail_buffer(sl[2]),
                            !.trailing_level =
                                calculate_trail_level(current_price, direction,
                                    recent_candles, calculate_trail_buffer(sl[2]))],
                       should_exit |-> FALSE]
                 ELSE [state |-> state, should_exit |-> FALSE]
          ELSE
            LET buffer    == calculate_trail_buffer(sl[2])
                new_trail == calculate_trail_level(current_price, direction,
                                                   recent_candles, buffer)
                level     == RatchetTrail(direction, state.trailing_level, new_trail)
                last      == recent_candles[Len(recent_candles)]
            IN  [state |->
                   [state EXCEPT
                      !.bars_in_momentum = @ + 1,
                      !.slope = sl[1],
                      !.slope_strength = sl[2],
                      !.trail_buffer_pct = buffer,
                      !.peak_price = IF direction = "long"
                                       THEN RMax(@, current_price)
                                       ELSE RMin(@, current_price),
                      !.trailing_level = level,
                      !.last_candle_body_high =
                          IF recent_candles # <<>> THEN RInt(CandleBodyHigh(last)) ELSE @,
                      !.last_candle_body_low =
                          IF recent_candles # <<>> THEN RInt(CandleBodyLow(last)) ELSE @],
                  should_exit |-> TrailBroken(direction, current_price, level)]

\* MomentumTrailingTP.update: [state, should_exit]; the slope is computed once
MomentumTrailingTP_update(state, current_price, current_r, direction, recent_closes, recent_candles) ==
    CHOOSE out \in { UpdateWithSlope(state, current_price, current_r, direction,
                                     recent_candles, sl) :
                       sl \in {calculate_slope(recent_closes, direction)} } : TRUE


-----------------------------------------------------------------------------
(* RiskEngine (risk_engine.py): configuration and helpers                  *)

\* RiskEngineConfig defaults
AtrStopMultiplier == 2
MaxStopPct == 5
EnableMultiTierStops == TRUE
BreakevenTriggerR == 1
BreakevenBufferPct == Pct(1, 10)
DivergenceLookback == 20
RsiPeriod == 14
DivergenceExitPct == 33
\* partial_exit_ratios [0.33, 0.33, 0.34] as exit percentages
PartialExitPct == <<33, 33, 34>>
TargetMultiples == <<2, 3, 5>>

\* Python's None where a price is expected
NoPrice == <<0, 0>>

\* structure_analysis is None
NoStructure == [kind |-> "none"]

_calculate_breakeven_price(entry_price, direction) ==
    LET buffer == RMul(entry_price, BreakevenBufferPct)
    IN  IF direction = "long" THEN RAdd(entry_price, buffer)
        ELSE RSub(entry_price, buffer)

\* a stop at the same price also counts as better
_is_better_stop_or_equal(new_stop, current_stop, direction) ==
    IF direction = "long" THEN RGe(new_stop, current_stop)
    ELSE RLe(new_stop, current_stop)

_is_better_stop(new_stop, current_stop, direction) ==
    IF direction = "long" THEN RGt(new_stop, current_stop)
    ELSE RLt(new_stop, current_stop)

\* RSI of the last rsi_period price changes
Rsi(close) ==
    LET delta  == [i \in 1..(Len(close) - 1) |-> close[i + 1] - close[i]]
        gains  == Suffix([i \in 1..Len(delta) |-> IF delta[i] > 0 THEN delta[i] ELSE 0],
                         RsiPeriod)
        losses == Suffix([i \in 1..Len(delta) |-> IF delta[i] < 0 THEN -delta[i] ELSE 0],
                         RsiPeriod)
        avg_gain == Rat(SumSeq(gains), Len(gains))
        avg_loss == Rat(SumSeq(losses), Len(losses))
    IN  IF avg_loss = RZero THEN RInt(100)
        ELSE RSub(RInt(100), RDiv(RInt(100), RAdd(RInt(1), RDiv(avg_gain, avg_loss))))

\* "bearish", "bullish" or "none"
_detect_divergence(closes, direction) ==
    IF Len(closes) < DivergenceLookback THEN "none"
    ELSE LET close  == Suffix(closes, DivergenceLookback)
             mid    == Len(close) \div 2
             first  == SubSeq(close, 1, mid)
             second == SubSeq(close, mid + 1, Len(close))
         IN  IF direction = "long"
               THEN IF SeqMax(second) > SeqMax(first) /\ RLt(Rsi(close), RInt(50))
                      THEN "bearish" ELSE "none"
               ELSE IF SeqMin(second) < SeqMin(first) /\ RGt(Rsi(close), RInt(50))
                      THEN "bullish" ELSE "none"

\* the trailed stop price, or NoPrice
_trail_stop(direction, entry, current, stops) ==
    IF stops = <<>> THEN NoPrice
    ELSE LET primary == stops[1]
             profit_pct == IF direction = "long"
                             THEN RMul(RDiv(RSub(current, entry), entry), RInt(100))
                             ELSE RMul(RDiv(RSub(entry, current), entry), RInt(100))
             new_stop == IF direction = "long" THEN RMul(entry, Rat(1001, 1000))
                         ELSE RMul(entry, Rat(999, 1000))
         IN  IF RGe(profit_pct, primary.distance_pct)
                /\ (IF direction = "long" THEN RGt(new_stop, primary.price)
                    ELSE RLt(new_stop, primary.price))
               THEN new_stop ELSE NoPrice

\* "strong", "weakening" or "broken"
_check_structure_health(direction, current, recent_lows, recent_highs) ==
    IF Len(recent_lows) < 3 \/ Len(recent_highs) < 3 THEN "strong"
    ELSE IF direction = "long"
      THEN IF recent_lows[1] < recent_lows[2] /\ recent_lows[2] < recent_lows[3]
             THEN "weakening"
           ELSE IF RGt(RDiv(RSub(RInt(SeqMax(Suffix(recent_highs, 10))), current), current),
                       Rat(3, 100))
             THEN "broken" ELSE "strong"
      ELSE IF recent_highs[1] > recent_highs[2] /\ recent_highs[2] > recent_highs[3]
             THEN "weakening"
           ELSE IF RGt(RDiv(RSub(current, RInt(SeqMin(Suffix(recent_lows, 10)))), current),
                       Rat(3, 100))
             THEN "broken" ELSE "strong"

\* mutant: the ATR fallback stop is as uncertain as the secondary stop
AtrStopConfidenceOfSecondary == Rat(5, 10)

\* the confidence of the ATR fallback stop
AtrStopConfidence == Rat(6, 10)

DistancePct(a, b, entry) == RMul(RDiv(RSub(a, b), entry), RInt(100))

\* RiskEngine._calculate_stops: structural stop, else ATR stop, then, with
\* enable_multi_tier_stops, the wider tiers
_calculate_stops(entry, direction, structure, atr, enable_multi_tier_stops) ==
    LET sign == IF direction = "long" THEN RInt(-1) ELSE RInt(1)
        level == IF structure = NoStructure THEN NoPrice
                 ELSE IF direction = "long" THEN structure.best_support
                 ELSE structure.best_resistance
        usable == /\ level # NoPrice
                  /\ IF direction = "long" THEN RLt(level, entry) ELSE RGt(level, entry)
        s_price == RAdd(level, RMul(sign, RMul(atr, Rat(2, 10))))
        s_dist  == IF direction = "long" THEN DistancePct(entry, s_price, entry)
                   ELSE DistancePct(s_price, entry, entry)
        a_price == RAdd(entry, RMul(sign, RMul(atr, RInt(AtrStopMultiplier))))
        a_dist  == IF direction = "long" THEN DistancePct(entry, a_price, entry)
                   ELSE DistancePct(a_price, entry, entry)
        wide    == RMul(RMul(atr, RInt(AtrStopMultiplier)), Rat(3, 2))
        first   == IF usable /\ RLe(s_dist, RInt(MaxStopPct))
                     THEN [price |-> s_price, type |-> "structural", distance_pct |-> s_dist,
                           confidence |-> IF direction = "long"
                                            THEN structure.support_confidence
                                            ELSE structure.resistance_confidence]
                     ELSE [price |-> a_price, type |-> "atr", distance_pct |-> a_dist,
                           confidence |-> AtrStopConfidence]
    IN  IF enable_multi_tier_stops
          THEN << first,
                  [price |-> RAdd(entry, RMul(sign, wide)), type |-> "secondary",
                   distance_pct |-> RMul(RDiv(wide, entry), RInt(100)),
                   confidence |-> Rat(5, 10)],
                  [price |-> RMul(entry, RAdd(RInt(1), RMul(sign, Rat(MaxStopPct, 100)))),
                   type |-> "safety_net", distance_pct |-> RInt(MaxStopPct),
                   confidence |-> RInt(1)] >>
          ELSE << first >>

\* RiskEngine._calculate_targets without VPVR levels: the structural target,
\* else the 2R / 3R / 5R extensions of the ATR stop distance
_calculate_targets(entry, direction, structure, atr) ==
    LET level == IF structure = NoStructure THEN NoPrice
                 ELSE IF direction = "long" THEN structure.best_resistance
                 ELSE structure.best_support
        usable == /\ level # NoPrice
                  /\ IF direction = "long" THEN RGt(level, entry) ELSE RLt(level, entry)
        stop_distance == RMul(atr, RInt(AtrStopMultiplier))
    IN  IF usable
          THEN << [price |-> level, type |-> "structural",
                   exit_percentage |-> PartialExitPct[1]] >>
          ELSE [i \in 1..Len(TargetMultiples) |->
                  [price |-> IF direction = "long"
                               THEN RAdd(entry, RMul(stop_distance, RInt(TargetMultiples[i])))
                               ELSE RSub(entry, RMul(stop_distance, RInt(TargetMultiples[i]))),
                   type |-> "extension",
                   exit_percentage |-> PartialExitPct[i]]]

-----------------------------------------------------------------------------
(* RiskEngine.update_position (risk_engine.py), one operator per block of  *)
(* the method; each takes and returns c = [levels, states, result]         *)

Symbol == "BTCUSDT"
NoSessionId == "None"

\* RiskUpdate(): the dataclass defaults; exit_reason is the kind of the message
NewRiskUpdate ==
    [current_r_multiple |-> RZero, breakeven_hit |-> FALSE, stop_moved |-> FALSE,
     moved_to_breakeven |-> FALSE, new_stop_price |-> NoPrice,
     momentum_trailing_active |-> FALSE, momentum_trailing_level |-> RZero,
     new_target_added |-> FALSE, new_target_price |-> NoPrice,
     divergence_detected |-> FALSE, divergence_type |-> "none",
     exit_signal |-> FALSE, exit_reason |-> "none", exit_percentage |-> 0,
     guarding_active |-> FALSE, guarding_broken |-> FALSE, guarding_level |-> NoPrice,
     structure_health |-> "strong"]

\* momentum_key = session_id or levels.symbol
MomentumKey(session_id, symbol) == IF session_id = NoSessionId THEN symbol ELSE session_id

\* self._momentum_states.get(key) is a state and it is active
MomentumActive(states, key) == key \in DOMAIN states /\ states[key].active

Closes(bars) == [i \in 1..Len(bars) |-> bars[i].close]

WithExit(res, reason, pct) ==
    [res EXCEPT !.exit_signal = TRUE, !.exit_reason = reason, !.exit_percentage = pct]

\* profit distance over the distance from entry to stops[0]
CurrentRMultiple(lv, current) ==
    IF lv.stops = <<>> THEN RZero
    ELSE LET risk_distance == RAbs(RSub(lv.entry_price, lv.stops[1].price))
             profit_distance == IF lv.direction = "long" THEN RSub(current, lv.entry_price)
                                ELSE RSub(lv.entry_price, current)
         IN  IF RGt(risk_distance, RZero) THEN RDiv(profit_distance, risk_distance)
             ELSE RZero

\* mutant: the stop goes to breakeven whenever that is better, whatever R is
BreakevenStepAtAnyR(c, update) ==
    LET current_stop == IF c.levels.stops # <<>> THEN c.levels.stops[1].price ELSE NoPrice
        breakeven_price == _calculate_breakeven_price(c.levels.entry_price,
                                                      c.levels.direction)
    IN  IF /\ current_stop # NoPrice
           /\ _is_better_stop(breakeven_price, current_stop, c.levels.direction)
          THEN [c EXCEPT !.result.breakeven_hit = TRUE,
                         !.result.stop_moved = TRUE,
                         !.result.moved_to_breakeven = TRUE,
                         !.result.new_stop_price = breakeven_price,
                         !.levels.stops[1].price = breakeven_price,
                         !.levels.stops[1].type = "breakeven"]
          ELSE c

\* mutant: the breakeven move also rewrites the distance of the stop
BreakevenStepRewritesDistance(c, update) ==
    IF RGe(c.result.current_r_multiple, RInt(BreakevenTriggerR))
      THEN LET current_stop == IF c.levels.stops # <<>> THEN c.levels.stops[1].price
                               ELSE NoPrice
               breakeven_price ==
                   IF c.levels.breakeven_price # RZero THEN c.levels.breakeven_price
                   ELSE _calculate_breakeven_price(c.levels.entry_price, c.levels.direction)
           IN  IF /\ current_stop # NoPrice
                  /\ current_stop # RZero
                  /\ _is_better_stop(breakeven_price, current_stop, c.levels.direction)
                 THEN [c EXCEPT !.result.breakeven_hit = TRUE,
                                !.result.stop_moved = TRUE,
                                !.result.moved_to_breakeven = TRUE,
                                !.result.new_stop_price = breakeven_price,
                                !.levels.stops[1].price = breakeven_price,
                                !.levels.stops[1].type = "breakeven",
                                !.levels.stops[1].distance_pct =
                                    DistancePct(breakeven_price, c.levels.entry_price,
                                                c.levels.entry_price)]
                 ELSE [c EXCEPT !.result.breakeven_hit = TRUE]
      ELSE c

BreakevenStep(c, update) ==
    IF RGe(c.result.current_r_multiple, RInt(BreakevenTriggerR))
      THEN LET current_stop == IF c.levels.stops # <<>> THEN c.levels.stops[1].price
                               ELSE NoPrice
               breakeven_price ==
                   IF c.levels.breakeven_price # RZero THEN c.levels.breakeven_price
                   ELSE _calculate_breakeven_price(c.levels.entry_price, c.levels.direction)
           IN  IF /\ current_stop # NoPrice
                  /\ current_stop # RZero
                  /\ _is_better_stop(breakeven_price, current_stop, c.levels.direction)
                 THEN [c EXCEPT !.result.breakeven_hit = TRUE,
                                !.result.stop_moved = TRUE,
                                !.result.moved_to_breakeven = TRUE,
                                !.result.new_stop_price = breakeven_price,
                                !.levels.stops[1].price = breakeven_price,
                                !.levels.stops[1].type = "breakeven"]
                 ELSE [c EXCEPT !.result.breakeven_hit = TRUE]
      ELSE c

\* what update_position does with the outcome of momentum_tp.update
MomentumReport(c, key, out) ==
    LET reported == IF out.state.active
                      THEN [c.result EXCEPT
                              !.momentum_trailing_active = TRUE,
                              !.momentum_trailing_level = out.state.trailing_level,
                              !.new_target_added = TRUE,
                              !.new_target_price = out.state.trailing_level]
                      ELSE c.result
    IN  [c EXCEPT
           !.states = [k \in (DOMAIN c.states) \cup {key} |->
                         IF k = key THEN out.state ELSE c.states[k]],
           !.result = IF out.should_exit THEN WithExit(reported, "momentum", 100)
                      ELSE reported]

MomentumStep(c, update, ohlcv, key) ==
    IF ohlcv.present /\ Len(ohlcv.bars) >= 5
      THEN LET state == IF key \in DOMAIN c.states THEN c.states[key]
                        ELSE NewMomentumState
           IN  CHOOSE next \in
                 { MomentumReport(c, key, out) :
                     out \in { MomentumTrailingTP_update(
                                 state, update.current_price,
                                 c.result.current_r_multiple, c.levels.direction,
                                 Suffix(Closes(ohlcv.bars), 10),
                                 Suffix(ohlcv.bars, 5)) } } : TRUE
      ELSE c

DivergenceStep(c, ohlcv, key) ==
    IF ~ohlcv.present THEN c
    ELSE LET div_type == _detect_divergence(Closes(ohlcv.bars), c.levels.direction)
             against  == \/ c.levels.direction = "long" /\ div_type = "bearish"
                         \/ c.levels.direction = "short" /\ div_type = "bullish"
             detected == [c.result EXCEPT !.divergence_detected = TRUE,
                                          !.divergence_type = div_type]
         IN  IF div_type = "none" THEN c
             ELSE IF /\ against
                     /\ RGt(c.result.current_r_multiple, Rat(1, 2))
                     /\ ~MomentumActive(c.states, key)
               THEN [c EXCEPT !.result = WithExit(detected, "divergence", DivergenceExitPct)]
               ELSE [c EXCEPT !.result = detected]

TargetHit(direction, current, target) ==
    IF direction = "long" THEN RGe(current, target.price)
    ELSE IF direction = "short" THEN RLe(current, target.price)
    ELSE FALSE

\* the first target of the ladder the price has reached, 0 when none
FirstTargetHit(direction, current, targets) ==
    LET hits == {i \in 1..Len(targets) : TargetHit(direction, current, targets[i])}
    IN  IF hits = {} THEN 0 ELSE CHOOSE i \in hits : \A j \in hits : i <= j

TargetsStep(c, update, key) ==
    LET i == FirstTargetHit(c.levels.direction, update.current_price, c.levels.targets)
    IN  IF MomentumActive(c.states, key) \/ i = 0 THEN c
        ELSE [c EXCEPT !.result = WithExit(@, "target", c.levels.targets[i].exit_percentage)]

\* a breach leaves an exit signal of an earlier block alone
GuardingStepKeepsEarlier(c, update) ==
    IF c.levels.guarding_line # NoLine /\ update.bars_since_entry >= GuardingActivationBars
      THEN LET level == get_current_level(c.levels.guarding_line, update.bars_since_entry)
               active == [c.result EXCEPT !.guarding_active = TRUE,
                                          !.guarding_level = level]
           IN  IF check_break(update.current_price, level, c.levels.direction)
                 THEN [c EXCEPT !.result =
                         IF active.exit_signal THEN [active EXCEPT !.guarding_broken = TRUE]
                         ELSE WithExit([active EXCEPT !.guarding_broken = TRUE],
                                       "guarding", 100)]
                 ELSE [c EXCEPT !.result = active]
      ELSE c

GuardingStep(c, update) ==
    IF c.levels.guarding_line # NoLine /\ update.bars_since_entry >= GuardingActivationBars
      THEN LET level == get_current_level(c.levels.guarding_line, update.bars_since_entry)
               active == [c.result EXCEPT !.guarding_active = TRUE,
                                          !.guarding_level = level]
           IN  IF check_break(update.current_price, level, c.levels.direction)
                 THEN [c EXCEPT !.result =
                         WithExit([active EXCEPT !.guarding_broken = TRUE], "guarding", 100)]
                 ELSE [c EXCEPT !.result = active]
      ELSE c

TrailStep(c, update) ==
    IF RGt(update.unrealized_pnl_pct, RZero) /\ ~c.result.moved_to_breakeven
      THEN LET new_stop == _trail_stop(c.levels.direction, c.levels.entry_price,
                                       update.current_price, c.levels.stops)
           IN  IF new_stop # NoPrice
                 THEN [c EXCEPT !.result.stop_moved = TRUE,
                                !.result.new_stop_price = new_stop]
                 ELSE c
      ELSE c

\* a broken structure replaces whatever exit an earlier block signalled
StructureStepOverwrites(c, update) ==
    IF update.recent_lows # <<>> /\ update.recent_highs # <<>>
      THEN LET health == _check_structure_health(c.levels.direction, update.current_price,
                                                 update.recent_lows, update.recent_highs)
               checked == [c.result EXCEPT !.structure_health = health]
           IN  IF health = "broken"
                 THEN [c EXCEPT !.result = WithExit(checked, "structure", 100)]
                 ELSE [c EXCEPT !.result = checked]
      ELSE c

StructureStep(c, update) ==
    IF update.recent_lows # <<>> /\ update.recent_highs # <<>>
      THEN LET health == _check_structure_health(c.levels.direction, update.current_price,
                                                 update.recent_lows, update.recent_highs)
               checked == [c.result EXCEPT !.structure_health = health]
           IN  IF health = "broken" /\ ~checked.exit_signal
                 THEN [c EXCEPT !.result = WithExit(checked, "structure", 100)]
                 ELSE [c EXCEPT !.result = checked]
      ELSE c

-----------------------------------------------------------------------------
(* RiskEngine of engine.py: levels with typed stops, a stateless update    *)

\* engine.py RiskEngineConfig.min_rr_ratio
MinRrRatio == 2

\* RiskLevels.get_primary_stop (models.py): the first stop of type PRIMARY
get_primary_stop(stops) ==
    LET primary == {i \in 1..Len(stops) : stops[i].type = "primary"}
    IN  IF primary = {} THEN NoPrice
        ELSE stops[CHOOSE i \in primary : \A j \in primary : i <= j].price

\* engine.py _calculate_stops: the same ladder, the first stop typed PRIMARY
Engine_calculate_stops(entry, direction, structure, atr, enable_multi_tier_stops) ==
    LET ladder == _calculate_stops(entry, direction, structure, atr, enable_multi_tier_stops)
    IN  [ladder EXCEPT ![1].type = "primary"]

\* engine.py _calculate_targets: structural levels only at min_rr_ratio or
\* more of the ATR stop distance, else the 2R / 3R / 5R extensions
Engine_calculate_targets(entry, direction, structure, atr) ==
    LET level == IF structure = NoStructure THEN NoPrice
                 ELSE IF direction = "long" THEN structure.best_resistance
                 ELSE structure.best_support
        primary_stop_dist == RMul(atr, RInt(AtrStopMultiplier))
        rr == IF direction = "long" THEN RDiv(RSub(level, entry), primary_stop_dist)
              ELSE RDiv(RSub(entry, level), primary_stop_dist)
        valid == /\ level # NoPrice
                 /\ IF direction = "long" THEN RGt(level, entry) ELSE RLt(level, entry)
    IN  IF valid /\ RGe(rr, RInt(MinRrRatio))
          THEN << [price |-> level, type |-> "structural",
                   exit_percentage |-> PartialExitPct[1]] >>
          ELSE _calculate_targets(entry, direction, NoStructure, atr)

\* mutant: a stop hit leaves an exit signalled earlier in the call in place
Engine_update_position_keeps_earlier(original_levels, update) ==
    LET direction == original_levels.direction
        current == update.current_price
        i == FirstTargetHit(direction, current, original_levels.targets)
        r1 == IF i = 0 THEN NewRiskUpdate
              ELSE WithExit(NewRiskUpdate, "target",
                            original_levels.targets[i].exit_percentage)
        guarded == /\ original_levels.guarding_line # NoLine
                   /\ update.bars_since_entry >= GuardingActivationBars
        guarding_price == get_current_level(original_levels.guarding_line,
                                            update.bars_since_entry)
        r2 == IF ~guarded THEN r1
              ELSE IF check_break(current, guarding_price, direction)
                THEN WithExit([r1 EXCEPT !.guarding_active = TRUE,
                                         !.guarding_broken = TRUE], "guarding", 100)
                ELSE [r1 EXCEPT !.guarding_active = TRUE]
        new_stop == IF RGt(update.unrealized_pnl_pct, RZero)
                      THEN _trail_stop(direction, original_levels.entry_price, current,
                                       original_levels.stops)
                      ELSE NoPrice
        r3 == [r2 EXCEPT !.stop_moved = (new_stop # NoPrice), !.new_stop_price = new_stop]
        primary_stop == get_primary_stop(original_levels.stops)
        stop_hit == /\ primary_stop # NoPrice
                    /\ IF direction = "long" THEN RLe(current, primary_stop)
                       ELSE IF direction = "short" THEN RGe(current, primary_stop)
                       ELSE FALSE
    IN  IF stop_hit /\ ~r3.exit_signal THEN WithExit(r3, "stop", 100) ELSE r3

\* engine.py update_position: targets, guarding line, trail, stop hit
Engine_update_position(original_levels, update) ==
    LET direction == original_levels.direction
        current == update.current_price
        i == FirstTargetHit(direction, current, original_levels.targets)
        r1 == IF i = 0 THEN NewRiskUpdate
              ELSE WithExit(NewRiskUpdate, "target",
                            original_levels.targets[i].exit_percentage)
        guarded == /\ original_levels.guarding_line # NoLine
                   /\ update.bars_since_entry >= GuardingActivationBars
        guarding_price == get_current_level(original_levels.guarding_line,
                                            update.bars_since_entry)
        r2 == IF ~guarded THEN r1
              ELSE IF check_break(current, guarding_price, direction)
                THEN WithExit([r1 EXCEPT !.guarding_active = TRUE,
                                         !.guarding_broken = TRUE], "guarding", 100)
                ELSE [r1 EXCEPT !.guarding_active = TRUE]
        new_stop == IF RGt(update.unrealized_pnl_pct, RZero)
                      THEN _trail_stop(direction, original_levels.entry_price, current,
                                       original_levels.stops)
                      ELSE NoPrice
        r3 == [r2 EXCEPT !.stop_moved = (new_stop # NoPrice), !.new_stop_price = new_stop]
        primary_stop == get_primary_stop(original_levels.stops)
        stop_hit == /\ primary_stop # NoPrice
                    /\ IF direction = "long" THEN RLe(current, primary_stop)
                       ELSE IF direction = "short" THEN RGe(current, primary_stop)
                       ELSE FALSE
    IN  IF stop_hit THEN WithExit(r3, "stop", 100) ELSE r3

-----------------------------------------------------------------------------
(* Session lifecycle and adaptive risk budget.                             *)
(* core/session.py and core/adaptive_budget.py are not among the sources;  *)
(* this part follows the design document (4.7, 4.8) and what their callers *)
(* in api/session_routes.py and tests/test_api.py pass and expect.         *)

NoSession == [status |-> "none"]

Directions == {"long", "short"}

\* CreateSessionRequest.risk_cap_pct and .max_shots defaults
DefaultRiskCapPct == 2
DefaultMaxShots == 3
\* phase entry -> management after this many bars
ManagementPhaseBar == 10

\* account balances handed to take_shot
Balances == {50000, 100000}
EntryPrices == {100, 104}
StopDistances == {4}
ExitPrices == {96, 112}
ExitPercentages == {50, 100}
UpdateBars == {3, 10}

\* bound: number of partial exits explored per session
MaxExits == 1

\* Shot k of a 3-shot budget gets 50% / 30% / 20% of the total risk cap
ShotAllocationPct == <<50, 30, 20>>

TotalRiskCap(balance, cap_pct) == Rat(balance * cap_pct, 100)

\* mutant: every shot gets an equal third of the cap
AllocatedRiskEqualSplit(balance, cap_pct, k) ==
    RMul(Rat(balance * cap_pct, 100), Rat(1, 3))

AllocatedRisk(balance, cap_pct, k) ==
    RMul(TotalRiskCap(balance, cap_pct), Rat(ShotAllocationPct[k], 100))

\* mutant: the remaining cap is not looked at
ExceedsRemainingCapUnchecked(alloc, used, cap) == FALSE

\* rejected when the allocation does not fit in what is left of the cap
ExceedsRemainingCap(alloc, used, cap) == RGt(alloc, RSub(cap, used))

\* mutant: the session status is not looked at
AcceptsEntriesAnyStatus(status) == TRUE

AcceptsEntries(status) == status \in {"pending", "active", "partial"}

\* is the request refused (take_shot returns None)?
ShotRejected(s, alloc, cap) ==
    \/ ~AcceptsEntries(s.status)
    \/ Len(s.shots) >= s.max_shots
    \/ ExceedsRemainingCap(alloc, s.risk_used, cap)

ShotSize(alloc, entry, stop) == RDiv(alloc, RInt(Abs(entry - stop)))

\* mutant: every accepted shot makes the session active
StatusAfterShotAlwaysActive(status) == "active"

StatusAfterShot(status) == IF status = "pending" THEN "active" ELSE status

NewSession(direction) ==
    [status |-> "pending", phase |-> "entry", direction |-> direction,
     cap_pct |-> DefaultRiskCapPct, max_shots |-> DefaultMaxShots,
     shots |-> <<>>, risk_used |-> RZero,
     total_size |-> RZero, remaining_size |-> RZero,
     cost |-> RZero, realized_pnl |-> RZero, exits |-> 0]

AverageEntry(s) == IF s.total_size = RZero THEN RZero ELSE RDiv(s.cost, s.total_size)

\* the session after take_shot(entry, stop) with the given balance
SessionAfterShot(s, entry, stop, balance) ==
    LET k     == Len(s.shots) + 1
        alloc == AllocatedRisk(balance, s.cap_pct, k)
        size  == ShotSize(alloc, entry, stop)
        shot  == [shot_number |-> k, entry_price |-> entry, stop_price |-> stop,
                  risk_amount |-> alloc, size |-> size, balance |-> balance]
    IN  [s EXCEPT !.shots = Append(@, shot),
                  !.risk_used = RAdd(@, alloc),
                  !.total_size = RAdd(@, size),
                  !.remaining_size = RAdd(@, size),
                  !.cost = RAdd(@, RMul(size, RInt(entry))),
                  !.status = StatusAfterShot(@)]

StopFor(direction, entry, dist) == IF direction = "long" THEN entry - dist ELSE entry + dist

CreateSession ==
    /\ UNCHANGED nonSessionVars
    /\ session = NoSession
    /\ \E d \in Directions :
          /\ session' = NewSession(d)
          /\ ret' = [op |-> "create", ok |-> TRUE, http |-> 200]

TakeShot ==
    /\ UNCHANGED nonSessionVars
    /\ session # NoSession
    /\ \E entry \in EntryPrices, dist \in StopDistances, balance \in Balances :
          LET stop  == StopFor(session.direction, entry, dist)
              k     == Len(session.shots) + 1
              cap   == TotalRiskCap(balance, session.cap_pct)
              alloc == IF k <= Len(ShotAllocationPct)
                         THEN AllocatedRisk(balance, session.cap_pct, k) ELSE RZero
              rejected == k > Len(ShotAllocationPct) \/ ShotRejected(session, alloc, cap)
          IN  IF rejected
                THEN /\ session' = session
                     /\ ret' = [op |-> "take_shot", ok |-> FALSE, http |-> 400,
                                balance |-> balance,
                                why |-> IF ~AcceptsEntries(session.status) THEN "status"
                                        ELSE IF Len(session.shots) >= session.max_shots
                                               THEN "max_shots" ELSE "cap"]
                ELSE /\ session' = SessionAfterShot(session, entry, stop, balance)
                     /\ ret' = [op |-> "take_shot", ok |-> TRUE, http |-> 200,
                                shot_number |-> k, risk_amount |-> alloc,
                                size |-> ShotSize(alloc, entry, stop),
                                entry_price |-> entry, stop_price |-> stop,
                                balance |-> balance]

\* update_session: tracking only; exit signals are returned to the caller,
\* who acts on them with execute_exit
PhaseAfterUpdate(phase, bar) == IF bar >= ManagementPhaseBar THEN "management" ELSE phase

UpdateSession ==
    /\ UNCHANGED nonSessionVars
    /\ session # NoSession
    /\ \E bar \in UpdateBars :
          /\ session' = IF session.status \in {"active", "partial"}
                          THEN [session EXCEPT !.phase = PhaseAfterUpdate(@, bar)]
                          ELSE session
          /\ ret' = [op |-> "update", ok |-> TRUE, http |-> 200]

\* mutant: the requested percentage is ignored, the whole position goes
ExitSizeWholePosition(remaining, pct) == remaining

\* size taken off the position by an exit of pct percent
ExitSize(remaining, pct) == RMul(remaining, Rat(pct, 100))

SlicePnl(direction, size, avg_entry, exit_price) ==
    IF direction = "long"
      THEN RMul(size, RSub(RInt(exit_price), avg_entry))
      ELSE RMul(size, RSub(avg_entry, RInt(exit_price)))

StatusAfterExit(pct, remaining) ==
    IF pct >= 100 \/ RLe(remaining, RZero) THEN "closed" ELSE "partial"

CanExit(s) == s.status \in {"active", "partial"} /\ RGt(s.remaining_size, RZero)

SessionAfterExit(s, price, pct) ==
    LET size == ExitSize(s.remaining_size, pct)
        left == RSub(s.remaining_size, size)
    IN  [s EXCEPT !.remaining_size = left,
                  !.realized_pnl = RAdd(@, SlicePnl(s.direction, size, AverageEntry(s), price)),
                  !.exits = IF pct < 100 THEN @ + 1 ELSE @,
                  !.status = StatusAfterExit(pct, left)]

ExecuteExit ==
    /\ UNCHANGED nonSessionVars
    /\ session # NoSession
    /\ \E price \in ExitPrices, pct \in ExitPercentages :
          /\ pct < 100 => session.exits < MaxExits
          /\ IF CanExit(session)
               THEN /\ session' = SessionAfterExit(session, price, pct)
                    /\ ret' = [op |-> "exit", ok |-> TRUE, http |-> 200,
                               percentage |-> pct, price |-> price,
                               size |-> ExitSize(session.remaining_size, pct),
                               pnl |-> SlicePnl(session.direction,
                                                ExitSize(session.remaining_size, pct),
                                                AverageEntry(session), price)]
               ELSE /\ session' = session
                    /\ ret' = [op |-> "exit", ok |-> FALSE, http |-> 400]

\* manual close (DELETE /session/{id}): ends a session that holds a position
StatusAfterClose(status) == IF status \in {"active", "partial"} THEN "closed" ELSE status

CloseSession ==
    /\ UNCHANGED nonSessionVars
    /\ session # NoSession
    /\ session' = [session EXCEPT !.status = StatusAfterClose(@)]
    /\ ret' = [op |-> "close", ok |-> TRUE, http |-> 200]

\* timeout_hours elapsed, noticed by the next sweep over the registry
StatusAfterTimeout(status) ==
    IF status = "active" THEN "expired"
    ELSE IF status = "partial" THEN "closed" ELSE status

ExpireSession ==
    /\ UNCHANGED nonSessionVars
    /\ session # NoSession
    /\ session.status \in {"active", "partial"}
    /\ session' = [session EXCEPT !.status = StatusAfterTimeout(@)]
    /\ ret' = [op |-> "sweep", ok |-> TRUE, http |-> 200]

-----------------------------------------------------------------------------
SessionIdle ==
    /\ session = NoSession
    /\ ret = [op |-> "init", ok |-> TRUE, http |-> 200]

GuardIdle ==
    /\ gline = NoLine
    /\ gdir = "long"
    /\ gbars = 0
    /\ gret = [op |-> "none", changed |-> FALSE]

MomentumIdle ==
    /\ mstate = NewMomentumState
    /\ mdir = "long"
    /\ mret = [op |-> "none"]

NoExit == [signal |-> FALSE, reason |-> "none", pct |-> 0]

NoSteps == [momentum |-> NoExit, divergence |-> NoExit, targets |-> NoExit,
            guarding |-> NoExit, structure |-> NoExit]

EngineIdle ==
    /\ engine = "none"
    /\ levels = [direction |-> "long"]
    /\ momentum_states = <<>>
    /\ result = NewRiskUpdate
    /\ steps = NoSteps
    /\ call = [op |-> "none"]
    /\ be_moves = 0

LevelsIdle ==
    /\ setup = [op |-> "none"]
    /\ computed = [op |-> "none"]

TpIdle ==
    /\ ltp = [direction |-> "none"]
    /\ tpret = [op |-> "none"]

PairIdle == pair = <<>>

Init ==
    /\ SessionIdle
    /\ GuardIdle
    /\ MomentumIdle
    /\ EngineIdle
    /\ LevelsIdle
    /\ TpIdle
    /\ PairIdle

Next ==
    \/ CreateSession
    \/ TakeShot
    \/ UpdateSession
    \/ ExecuteExit
    \/ CloseSession
    \/ ExpireSession

Spec == Init /\ [][Next]_vars

-----------------------------------------------------------------------------
(* A guarding line followed bar by bar: built by calculate_initial_line of *)
(* either class, read with get_current_level, adjusted by update_line and  *)
(* update_slope.                                                           *)

MaxGuardBars == 13

TradeEntries == {100}

\* lows (long) or highs (short) handed to calculate_initial_line
InitialPriceData ==
    { <<99, 98, 97, 98>>,
      <<102, 101, 98, 101, 102, 99, 101, 102>>,
      <<98, 99, 102, 99, 98, 101, 99, 98>>,
      <<98, 99, 100, 101, 102>>,
      <<102, 101, 100, 99, 98>> }

\* recent lows (long) or highs (short) handed to update_line
RecentPrices ==
    { <<104, 105, 106, 105>>,
      <<104, 105, 106, 105, 107>>,
      <<99, 100, 101, 100, 99>>,
      <<92, 93, 94, 93, 92>> }

\* new swing points handed to update_slope
NewSwingPoints ==
    { <<<<3>>, <<99>>>>,
      <<<<2, 5>>, <<98, 101>>>>,
      <<<<2, 6>>, <<104, 100>>>>,
      <<<<2, 6>>, <<100, 101>>>> }

GuardLevel == get_current_level(gline, gbars)

GuardActive == gline # NoLine /\ gbars >= gline.activation_bar

GuardInit ==
    /\ SessionIdle
    /\ MomentumIdle
    /\ EngineIdle
    /\ LevelsIdle
    /\ TpIdle
    /\ PairIdle
    /\ \E d \in Directions, e \in TradeEntries, data \in InitialPriceData :
          /\ gdir = d
          /\ gline \in { GuardingLineManager_calculate_initial_line(e, d, data),
                          GuardingLine_calculate_initial_line(e, d, data) }
    /\ gbars = 0
    /\ gret = [op |-> "calculate_initial_line", changed |-> TRUE]

\* the next bar closes
GuardAdvance ==
    /\ gbars < MaxGuardBars
    /\ gbars' = gbars + 1
    /\ gret' = [op |-> "bar", changed |-> FALSE]
    /\ UNCHANGED <<gline, gdir>>
    /\ UNCHANGED nonGuardVars

GuardUpdateLine ==
    /\ \E recent \in RecentPrices :
          /\ gline' = update_line(gline, gdir, recent, gbars)
          /\ gret' = [op |-> "update_line", changed |-> gline' # gline]
    /\ UNCHANGED <<gdir, gbars>>
    /\ UNCHANGED nonGuardVars

GuardUpdateSlope ==
    /\ \E swing \in NewSwingPoints, e \in TradeEntries :
          /\ gline' = update_slope(gline, swing, gdir, e)
          /\ gret' = [op |-> "update_slope", changed |-> gline' # gline]
    /\ UNCHANGED <<gdir, gbars>>
    /\ UNCHANGED nonGuardVars

GuardNext ==
    \/ GuardAdvance
    \/ GuardUpdateLine
    \/ GuardUpdateSlope

GuardSpec == GuardInit /\ [][GuardNext]_vars

-----------------------------------------------------------------------------
(* One MomentumState driven by successive MomentumTrailingTP.update calls  *)

MaxMomentumBars == 3

Candle(o, c) == [open |-> o, close |-> c,
                 high |-> IF o > c THEN o ELSE c, low |-> IF o < c THEN o ELSE c]

MomentumPrices == {98, 103, 106}
MomentumRs == {0, 2}
MomentumCloses ==
    { <<100, 101>>,
      <<100, 101, 102, 103, 104>>,
      <<104, 103, 102, 101, 100>>,
      <<100, 102, 104, 106, 108>>,
      <<108, 106, 104, 102, 100>>,
      <<100, 100, 100, 100, 100>> }
MomentumCandles ==
    { <<>>,
      <<Candle(100, 101), Candle(101, 102), Candle(102, 104)>>,
      <<Candle(104, 103), Candle(103, 101), Candle(101, 100)>> }

MomentumInit ==
    /\ SessionIdle
    /\ GuardIdle
    /\ EngineIdle
    /\ LevelsIdle
    /\ TpIdle
    /\ PairIdle
    /\ mstate = NewMomentumState
    /\ mdir \in Directions
    /\ mret = [op |-> "none"]

MomentumUpdate ==
    /\ mstate.bars_in_momentum < MaxMomentumBars
    /\ \E p \in MomentumPrices, r \in MomentumRs,
          closes \in MomentumCloses, candles \in MomentumCandles :
          \E out \in {MomentumTrailingTP_update(mstate, RInt(p), RInt(r), mdir,
                                                 closes, candles)} :
              /\ mstate' = out.state
              /\ mret' = [op |-> "update", was_active |-> mstate.active,
                          current_price |-> RInt(p), current_r |-> RInt(r),
                          should_exit |-> out.should_exit]
    /\ UNCHANGED mdir
    /\ UNCHANGED nonMomentumVars

MomentumNext == MomentumUpdate

MomentumSpec == MomentumInit /\ [][MomentumNext]_vars

-----------------------------------------------------------------------------
(* One position managed bar by bar through update_position                 *)

MaxEngineMomentumBars == 2
MaxBreakevenMoves == 2

Atrs == {2}
\* confluence_score of the best support and resistance of a structure analysis
ConfluenceScore == 7
Engines == {"risk_engine", "engine"}
SessionIds == {"s1"}
BarsSinceEntry == {3, 12, 40}

\* structure_analysis (risk_engine.py) or support / resistance levels (engine.py)
Structures ==
    { NoStructure,
      [kind |-> "levels", best_support |-> RInt(98), best_resistance |-> RInt(102),
       support_confidence |-> Rat(ConfluenceScore, 10),
       resistance_confidence |-> Rat(ConfluenceScore, 10)] }

Range(a, b) == [i \in 1..(b - a + 1) |-> a + i - 1]

\* the series reflected about the entry price 100
Mirror(q) == [i \in 1..Len(q) |-> 200 - q[i]]

\* candles closing at the given closes, each opening where the last one closed
BarsOf(closes) ==
    [i \in 1..Len(closes) |-> Candle(IF i = 1 THEN closes[1] ELSE closes[i - 1], closes[i])]

NoOhlcv == [present |-> FALSE, bars |-> <<>>]
Ohlcv(closes) == [present |-> TRUE, bars |-> BarsOf(closes)]

\* what a caller hands to update_position on one bar, for a long position
LongSnapshots ==
    { [name |-> "quiet", ohlcv |-> NoOhlcv, price |-> 102,
       recent_lows |-> <<>>, recent_highs |-> <<>>],
      [name |-> "uptrend", ohlcv |-> Ohlcv(Range(85, 104)), price |-> 104,
       recent_lows |-> <<103, 102, 101>>, recent_highs |-> <<105, 104, 103>>],
      [name |-> "extended", ohlcv |-> Ohlcv(Range(90, 109)), price |-> 109,
       recent_lows |-> <<>>, recent_highs |-> <<>>],
      [name |-> "drop", ohlcv |-> Ohlcv(Range(88, 104) \o <<103, 101, 99>>), price |-> 99,
       recent_lows |-> <<100, 99, 100>>, recent_highs |-> <<104, 104, 103>>],
      [name |-> "divergence",
       ohlcv |-> Ohlcv(Range(115, 124) \o <<125, 122, 119, 116, 114, 112, 111, 110, 109, 108>>),
       price |-> 108, recent_lows |-> <<>>, recent_highs |-> <<>>],
      [name |-> "stopped", ohlcv |-> NoOhlcv, price |-> 95,
       recent_lows |-> <<95, 96, 97>>, recent_highs |-> <<97, 98, 99>>] }

MirrorSnapshot(sn) ==
    [name |-> sn.name,
     ohlcv |-> IF sn.ohlcv.present THEN Ohlcv(Mirror(Closes(sn.ohlcv.bars))) ELSE NoOhlcv,
     price |-> 200 - sn.price,
     recent_lows |-> Mirror(sn.recent_highs),
     recent_highs |-> Mirror(sn.recent_lows)]

Snapshots(direction) ==
    IF direction = "long" THEN LongSnapshots
    ELSE {MirrorSnapshot(sn) : sn \in LongSnapshots}

\* a bar that closes exactly on the ATR stop of the position
AtStopSnapshot ==
    [name |-> "at_stop", ohlcv |-> NoOhlcv, price |-> 96,
     recent_lows |-> <<>>, recent_highs |-> <<>>]

EngineSnapshots(direction) ==
    Snapshots(direction)
    \cup {IF direction = "long" THEN AtStopSnapshot ELSE MirrorSnapshot(AtStopSnapshot)}

\* the lows (long) or highs (short) the guarding line is fitted to
GuardPriceData(direction) ==
    IF direction = "long" THEN Range(98, 117) ELSE Mirror(Range(98, 117))

PositionUpdateOf(sn, bars, direction, entry) ==
    [current_price |-> RInt(sn.price),
     bars_since_entry |-> bars,
     unrealized_pnl_pct |->
         IF direction = "long" THEN DistancePct(RInt(sn.price), entry, entry)
         ELSE DistancePct(entry, RInt(sn.price), entry),
     recent_lows |-> sn.recent_lows,
     recent_highs |-> sn.recent_highs]

\* RiskEngine.calculate_risk_levels of risk_engine.py on a swing timeframe
RiskLevelsOf(entry, direction, structure, atr) ==
    [symbol |-> Symbol, direction |-> direction, entry_price |-> entry,
     stops |-> _calculate_stops(entry, direction, structure, atr, EnableMultiTierStops),
     targets |-> _calculate_targets(entry, direction, structure, atr),
     guarding_line |->
         GuardingLineManager_calculate_initial_line(entry[1], direction,
                                                    GuardPriceData(direction)),
     breakeven_price |-> _calculate_breakeven_price(entry, direction)]

\* RiskEngine.calculate_risk_levels of engine.py on a swing timeframe
Engine_RiskLevelsOf(entry, direction, structure, atr) ==
    [symbol |-> Symbol, direction |-> direction, entry_price |-> entry,
     stops |-> Engine_calculate_stops(entry, direction, structure, atr,
                                      EnableMultiTierStops),
     targets |-> Engine_calculate_targets(entry, direction, structure, atr),
     guarding_line |->
         GuardingLine_calculate_initial_line(entry[1], direction,
                                             GuardPriceData(direction)),
     breakeven_price |-> RZero]

ExitOf(r) == [signal |-> r.exit_signal, reason |-> r.exit_reason, pct |-> r.exit_percentage]

EngineInit ==
    /\ SessionIdle
    /\ GuardIdle
    /\ MomentumIdle
    /\ LevelsIdle
    /\ TpIdle
    /\ PairIdle
    /\ engine \in Engines
    /\ \E d \in Directions, e \in TradeEntries, st \in Structures, atr \in Atrs :
          levels = IF engine = "risk_engine"
                     THEN RiskLevelsOf(RInt(e), d, st, RInt(atr))
                     ELSE Engine_RiskLevelsOf(RInt(e), d, st, RInt(atr))
    /\ momentum_states = <<>>
    /\ result = NewRiskUpdate
    /\ steps = NoSteps
    /\ call = [op |-> "none"]
    /\ be_moves = 0

\* RiskEngine.update_position of risk_engine.py
UpdatePosition ==
    /\ engine = "risk_engine"
    /\ be_moves < MaxBreakevenMoves
    /\ \E sn \in Snapshots(levels.direction), bars \in BarsSinceEntry, sid \in SessionIds :
         LET update == PositionUpdateOf(sn, bars, levels.direction, levels.entry_price)
             key == MomentumKey(sid, levels.symbol)
             r0 == [NewRiskUpdate EXCEPT
                      !.current_r_multiple = CurrentRMultiple(levels, update.current_price)]
         IN  /\ key \in DOMAIN momentum_states =>
                   momentum_states[key].bars_in_momentum < MaxEngineMomentumBars
             /\ \E c1 \in {BreakevenStep([levels |-> levels, states |-> momentum_states,
                                          result |-> r0], update)} :
                \E c2 \in {MomentumStep(c1, update, sn.ohlcv, key)} :
                \E c3 \in {DivergenceStep(c2, sn.ohlcv, key)} :
                \E c4 \in {TargetsStep(c3, update, key)} :
                \E c5 \in {GuardingStep(c4, update)} :
                \E c6 \in {TrailStep(c5, update)} :
                \E c7 \in {StructureStep(c6, update)} :
                   /\ levels' = c7.levels
                   /\ momentum_states' = c7.states
                   /\ result' = c7.result
                   /\ steps' = [momentum |-> ExitOf(c2.result),
                                divergence |-> ExitOf(c3.result),
                                targets |-> ExitOf(c4.result),
                                guarding |-> ExitOf(c5.result),
                                structure |-> ExitOf(c7.result)]
                   /\ call' = [op |-> "update_position", snapshot |-> sn.name,
                               current_price |-> update.current_price,
                               bars_since_entry |-> bars, session_id |-> sid]
                   /\ be_moves' = be_moves + IF c7.result.moved_to_breakeven THEN 1 ELSE 0
    /\ UNCHANGED engine
    /\ UNCHANGED nonEngineVars

\* mutant: the reset leaves the state in place
reset_momentum_state_keeps(states, session_id) == states

\* RiskEngine.reset_momentum_state: the state of the key is deleted
reset_momentum_state(states, session_id) ==
    [k \in (DOMAIN states) \ {session_id} |-> states[k]]

\* RiskEngine.reset_momentum_state called by the owner of the position
ResetMomentumState ==
    /\ engine = "risk_engine"
    /\ \E sid \in SessionIds \cup {Symbol} :
          /\ momentum_states' = reset_momentum_state(momentum_states, sid)
          /\ call' = [op |-> "reset_momentum_state", session_id |-> sid,
                      had_state |-> sid \in DOMAIN momentum_states]
    /\ UNCHANGED <<engine, levels, result, steps, be_moves>>
    /\ UNCHANGED nonEngineVars

\* RiskEngine.update_position of engine.py
EngineUpdatePosition ==
    /\ engine = "engine"
    /\ \E sn \in EngineSnapshots(levels.direction), bars \in BarsSinceEntry :
         LET update == PositionUpdateOf(sn, bars, levels.direction, levels.entry_price)
         IN  \E r \in {Engine_update_position(levels, update)} :
               /\ result' = r
               /\ steps' = [NoSteps EXCEPT !.targets = ExitOf(r), !.guarding = ExitOf(r),
                                           !.structure = ExitOf(r)]
               /\ call' = [op |-> "update_position", snapshot |-> sn.name,
                           current_price |-> update.current_price,
                           bars_since_entry |-> bars, session_id |-> NoSessionId]
    /\ UNCHANGED <<engine, levels, momentum_states, be_moves>>
    /\ UNCHANGED nonEngineVars

EngineNext ==
    \/ UpdatePosition
    \/ ResetMomentumState
    \/ EngineUpdatePosition

EngineSpec == EngineInit /\ [][EngineNext]_vars

-----------------------------------------------------------------------------
(* calculate_risk_levels: OHLCV series, ATR and the volatility regime      *)

\* RiskEngineConfig defaults (risk_engine.py)
MinBars == 50
AtrPeriod == 14
VolatilityLookback == 100
LowVolThreshold == Rat(1, 2)
HighVolThreshold == Rat(3, 2)
ExtremeVolThreshold == Rat(5, 2)
ExtremeVolSizeReduction == Rat(1, 2)
MinRrForEntry == 2

\* ohlcv_data.get(timeframe) is None
NoSeries == <<>>

\* A bar is [high, low, close].  A series is written as runs <<count, half_range>>
\* of bars that close at centre and reach half_range above and below it.
RECURSIVE BarsOfRuns(_, _)
BarsOfRuns(centre, runs) ==
    IF runs = <<>> THEN <<>>
    ELSE [i \in 1..runs[1][1] |->
            [high |-> centre + runs[1][2], low |-> centre - runs[1][2], close |-> centre]]
         \o BarsOfRuns(centre, Tail(runs))

Reverse(q) == [i \in 1..Len(q) |-> q[Len(q) + 1 - i]]

Max3(a, b, c) == IF a >= b /\ a >= c THEN a ELSE IF b >= c THEN b ELSE c

\* sum of q[a..b], by halves
RECURSIVE SumRange(_, _, _)
SumRange(q, a, b) ==
    IF a > b THEN 0
    ELSE IF a = b THEN q[a]
    ELSE SumRange(q, a, (a + b) \div 2) + SumRange(q, (a + b) \div 2 + 1, b)

\* _calculate_atr (risk_engine.py), bars oldest first: the true range of every
\* bar but the first, averaged over the last period of them, or over all of
\* them when there are fewer
TrueRanges(bars) ==
    [i \in 1..(Len(bars) - 1) |->
        Max3(bars[i + 1].high - bars[i + 1].low,
             Abs(bars[i + 1].high - bars[i].close),
             Abs(bars[i + 1].low - bars[i].close))]

MeanOfLast(tr, period) ==
    IF Len(tr) >= period THEN Rat(SumRange(tr, Len(tr) - period + 1, Len(tr)), period)
    ELSE Rat(SumRange(tr, 1, Len(tr)), Len(tr))

_calculate_atr(bars, period) ==
    CHOOSE out \in { MeanOfLast(tr, period) : tr \in {TrueRanges(bars)} } : TRUE

\* MarketContext.atr (models.py), lists most recent first: 0.0 with fewer than
\* 14 bars, else the mean true range of the 14 most recent bars
MarketContext_atr(recent_first) ==
    IF Len(recent_first) < 14 THEN RZero
    ELSE LET n == IF 14 < Len(recent_first) - 1 THEN 14 ELSE Len(recent_first) - 1
             tr == [i \in 1..n |->
                      Max3(recent_first[i].high - recent_first[i].low,
                           Abs(recent_first[i].high - recent_first[i + 1].close),
                           Abs(recent_first[i].low - recent_first[i + 1].close))]
         IN  IF n = 0 THEN RZero ELSE Rat(SumRange(tr, 1, n), n)

\* mutant: the thresholds themselves count as beyond
RegimeOfRatioInclusive(ratio) ==
    IF RLe(ratio, LowVolThreshold) THEN "low"
    ELSE IF RGe(ratio, ExtremeVolThreshold) THEN "extreme"
    ELSE IF RGe(ratio, HighVolThreshold) THEN "high"
    ELSE "normal"

\* the if / elif chain of _detect_volatility_regime
RegimeOfRatio(ratio) ==
    IF RLt(ratio, LowVolThreshold) THEN "low"
    ELSE IF RGt(ratio, ExtremeVolThreshold) THEN "extreme"
    ELSE IF RGt(ratio, HighVolThreshold) THEN "high"
    ELSE "normal"

\* RiskEngine._detect_volatility_regime
_detect_volatility_regime(bars, current_atr) ==
    IF Len(bars) < VolatilityLookback THEN "normal"
    ELSE \* bound once: the baseline is a sum over a hundred true ranges
         CHOOSE out \in
           { IF baseline_atr = RZero THEN "normal"
             ELSE RegimeOfRatio(RDiv(current_atr, baseline_atr)) :
               baseline_atr \in {_calculate_atr(bars, VolatilityLookback)} } : TRUE

-----------------------------------------------------------------------------
(* calculate_risk_levels: target ladders under a configured schedule       *)

\* exit_ratios[i] if i < len(exit_ratios) else exit_ratios[-1], i counted from 1
RatioAt(exit_ratios, i) ==
    IF i <= Len(exit_ratios) THEN exit_ratios[i] ELSE exit_ratios[Len(exit_ratios)]

RECURSIVE InsertByDistance(_, _, _)
InsertByDistance(x, q, entry) ==
    IF q = <<>> THEN <<x>>
    ELSE IF RLt(RAbs(RSub(x.price, entry)), RAbs(RSub(q[1].price, entry)))
      THEN <<x>> \o q
      ELSE <<q[1]>> \o InsertByDistance(x, Tail(q), entry)

\* list.sort(key=lambda t: abs(t[0] - entry)): stable, nearest first
RECURSIVE SortByDistance(_, _)
SortByDistance(q, entry) ==
    IF q = <<>> THEN <<>>
    ELSE InsertByDistance(q[Len(q)], SortByDistance(SubSeq(q, 1, Len(q) - 1), entry), entry)

\* the 2R / 3R / 5R extensions of the ATR stop distance
ExtensionTargets(entry, direction, atr, exit_ratios) ==
    LET stop_distance == RMul(atr, RInt(AtrStopMultiplier))
    IN  [i \in 1..Len(TargetMultiples) |->
           [price |-> IF direction = "long"
                        THEN RAdd(entry, RMul(stop_distance, RInt(TargetMultiples[i])))
                        ELSE RSub(entry, RMul(stop_distance, RInt(TargetMultiples[i]))),
            type |-> "extension",
            exit_percentage |-> RMul(RatioAt(exit_ratios, i), RInt(100))]]

\* RiskEngine._calculate_targets (risk_engine.py) with the volume-profile
\* targets the VPVR analyzer returned and the configured schedule
RiskEngine_calculate_targets(entry, direction, structure, vpvr_targets, atr, exit_ratios) ==
    LET level == IF structure = NoStructure THEN NoPrice
                 ELSE IF direction = "long" THEN structure.best_resistance
                 ELSE structure.best_support
        usable == /\ level # NoPrice
                  /\ IF direction = "long" THEN RGt(level, entry) ELSE RLt(level, entry)
        structural_targets == IF usable THEN << [price |-> level, type |-> "structural"] >>
                              ELSE <<>>
        all_targets == SortByDistance(
                           [i \in 1..Len(vpvr_targets) |->
                               [price |-> vpvr_targets[i], type |-> "vpvr"]]
                           \o structural_targets, entry)
        kept == Prefix(all_targets, 3)
    IN  IF kept # <<>>
          THEN [i \in 1..Len(kept) |->
                  [price |-> kept[i].price, type |-> kept[i].type,
                   exit_percentage |-> RMul(RatioAt(exit_ratios, i), RInt(100))]]
          ELSE ExtensionTargets(entry, direction, atr, exit_ratios)

\* engine.py _find_support_levels / _find_resistance_levels: the pre-calculated
\* levels when the market context carries them, else the swing lows (highs) of
\* the 100 most recent bars, nearest to entry first, at most five
FindLevels(given, bars_recent_first, direction, entry) ==
    IF given # <<>> THEN given
    ELSE LET side == [i \in 1..Len(bars_recent_first) |->
                        IF direction = "long" THEN bars_recent_first[i].low
                        ELSE bars_recent_first[i].high]
             swings == FindSwingPoints(Prefix(side, 100), direction)[2]
             sorted == SortByDistance([i \in 1..Len(swings) |-> [price |-> RInt(swings[i])]],
                                      entry)
         IN  [i \in 1..(IF Len(sorted) < 5 THEN Len(sorted) ELSE 5) |-> sorted[i].price]

\* the confidence _find_support_levels / _find_resistance_levels pair with a
\* level: 0.8 for a pre-calculated level, else a fifth per touch, at most 1
LevelConfidence(given, bars_recent_first, direction, level) ==
    IF given # <<>> THEN Rat(8, 10)
    ELSE LET side == Prefix([i \in 1..Len(bars_recent_first) |->
                               IF direction = "long" THEN bars_recent_first[i].low
                               ELSE bars_recent_first[i].high], 100)
             touches == Cardinality({i \in 1..Len(side) :
                            RLt(RDiv(RAbs(RSub(RInt(side[i]), level)), level),
                                Rat(5, 1000))})
         IN  RMin(RInt(1), Rat(touches, 5))

\* the levels on the profit side of entry, nearest first
ValidLevels(lvls, direction, entry) ==
    LET valid == SelectSeq(lvls, LAMBDA l : IF direction = "long" THEN RGt(l, entry)
                                                     ELSE RLt(l, entry))
        sorted == SortByDistance([k \in 1..Len(valid) |-> [price |-> valid[k]]], entry)
    IN  [i \in 1..Len(valid) |-> sorted[i].price]

\* engine.py _calculate_targets: up to three levels beyond entry, each kept
\* only at min_rr_ratio or more of the ATR stop distance; else the extensions.
\* The R:R of a level is a division by atr * atr_stop_multiplier.
Engine_calculate_targets_of(entry, direction, lvls, atr, exit_ratios) ==
    LET primary_stop_dist == RMul(atr, RInt(AtrStopMultiplier))
        valid == Prefix(ValidLevels(lvls, direction, entry), 3)
        rr(l) == RDiv(RAbs(RSub(l, entry)), primary_stop_dist)
        kept == { i \in 1..Len(valid) : RGe(rr(valid[i]), RInt(MinRrRatio)) }
        order == SortedSeq(kept)
    IN  IF valid # <<>> /\ primary_stop_dist = RZero
          THEN [raised |-> TRUE, targets |-> <<>>]
        ELSE IF kept # {}
          THEN [raised |-> FALSE,
                targets |-> [k \in 1..Len(order) |->
                               [price |-> valid[order[k]], type |-> "structural",
                                exit_percentage |->
                                    RMul(RatioAt(exit_ratios, order[k]), RInt(100))]]]
          ELSE [raised |-> FALSE,
                targets |-> ExtensionTargets(entry, direction, atr, exit_ratios)]

-----------------------------------------------------------------------------
(* calculate_risk_levels: sizing, risk metrics and the two entry points    *)

SwingTimeframes == {"4h", "1d", "1w", "daily", "weekly"}
_is_swing_timeframe(timeframe) == timeframe \in SwingTimeframes

\* vol_factor = max(0.5, min(2.0, 2.0 / max(atr_pct, 0.5)))
VolFactor(atr_pct) ==
    RMax(Rat(1, 2), RMin(RInt(2), RDiv(RInt(2), RMax(atr_pct, Rat(1, 2)))))

\* _calculate_position_size of both engines (volatility_adjusted_sizing on)
_calculate_position_size(account_balance, risk_pct, entry_price, risk_distance, atr_pct) ==
    LET adjusted == RMul(risk_pct, VolFactor(atr_pct))
        risk_amount == RMul(account_balance, RDiv(adjusted, RInt(100)))
        position_size == IF RGt(risk_distance, RZero) THEN RDiv(risk_amount, risk_distance)
                         ELSE RZero
    IN  [position_size |-> position_size,
         position_size_pct |->
             RMul(RDiv(RMul(position_size, entry_price), account_balance), RInt(100)),
         risk_amount |-> risk_amount]

\* _calculate_rr_ratio: reward / risk if risk > 0 else 0.0
_calculate_rr_ratio(entry, stop, target) ==
    LET risk == RAbs(RSub(entry, stop))
        reward == RAbs(RSub(target, entry))
    IN  IF RGt(risk, RZero) THEN RDiv(reward, risk) ELSE RZero

_calculate_one_r_price(entry_price, stop_price, direction) ==
    LET risk_distance == RAbs(RSub(entry_price, stop_price))
    IN  IF direction = "long" THEN RAdd(entry_price, risk_distance)
        ELSE RSub(entry_price, risk_distance)

\* RiskLevels(entry_price, direction, timeframe, symbol): every other field at
\* its dataclass default
DefaultRiskLevels(s) ==
    [op |-> "calculate", raised |-> FALSE,
     entry_price |-> s.entry_price, direction |-> s.direction,
     stops |-> <<>>, targets |-> <<>>,
     position_size |-> RZero, position_size_pct |-> RZero, risk_amount |-> RZero,
     risk_reward_ratio |-> RZero, max_risk_reward_ratio |-> RZero,
     guarding_line |-> NoLine, entry_blocked |-> FALSE,
     volatility_regime |-> "normal", atr_current |-> RZero, atr_pct |-> RZero,
     breakeven_price |-> RZero, one_r_price |-> RZero]

\* mutant: only a missing series counts as insufficient
InsufficientDataOnlyMissing(series) == series = NoSeries

\* primary_df is None or len(primary_df) < 50
InsufficientData(series) == series = NoSeries \/ Len(series) < MinBars

\* mutant: extreme volatility does not reduce the risk
AdjustedRiskPctUnreduced(risk_per_trade_pct, regime) == risk_per_trade_pct

\* adjusted_risk_pct: halved in the extreme regime
AdjustedRiskPct(risk_per_trade_pct, regime) ==
    IF regime = "extreme" THEN RMul(risk_per_trade_pct, ExtremeVolSizeReduction)
    ELSE risk_per_trade_pct

\* mutant: the gate blocks at the minimum as well
EntryGateBlocksAtMinimum(rr) == RLe(rr, RInt(MinRrForEntry))

\* enforce_min_rr: blocked when the R:R to the first target is below the minimum
EntryGateBlocks(rr) == RLt(rr, RInt(MinRrForEntry))

\* steps 5 to 9 and the entry gate of RiskEngine.calculate_risk_levels, given
\* the bars, their ATR and the regime
RiskLevelsFrom(s, bars, atr, regime) ==
    LET entry == s.entry_price
        atr_pct == RMul(RDiv(atr, entry), RInt(100))
        stops == _calculate_stops(entry, s.direction, s.structure, atr,
                                  s.enable_multi_tier_stops)
        targets == RiskEngine_calculate_targets(entry, s.direction, s.structure,
                                                s.vpvr_targets, atr, s.partial_exit_ratios)
        price_data == [i \in 1..Len(bars) |->
                         IF s.direction = "long" THEN bars[i].low ELSE bars[i].high]
        risk_distance == RAbs(RSub(entry, stops[1].price))
        size == _calculate_position_size(s.account_balance,
                                         AdjustedRiskPct(s.risk_per_trade_pct, regime),
                                         entry, risk_distance, atr_pct)
        rr == _calculate_rr_ratio(entry, stops[1].price, targets[1].price)
    IN  [op |-> "calculate", raised |-> FALSE,
         entry_price |-> entry, direction |-> s.direction,
         stops |-> stops, targets |-> targets,
         position_size |-> size.position_size,
         position_size_pct |-> size.position_size_pct,
         risk_amount |-> size.risk_amount,
         risk_reward_ratio |-> rr,
         max_risk_reward_ratio |->
             _calculate_rr_ratio(entry, stops[1].price, targets[Len(targets)].price),
         guarding_line |->
             IF _is_swing_timeframe(s.timeframe)
               THEN GuardingLineManager_calculate_initial_line(entry[1], s.direction,
                                                               price_data)
               ELSE NoLine,
         entry_blocked |-> EntryGateBlocks(rr),
         volatility_regime |-> regime, atr_current |-> atr, atr_pct |-> atr_pct,
         breakeven_price |-> _calculate_breakeven_price(entry, s.direction),
         one_r_price |-> _calculate_one_r_price(entry, stops[1].price, s.direction)]

\* RiskEngine.calculate_risk_levels (risk_engine.py)
RiskEngine_calculate_risk_levels(s) ==
    IF InsufficientData(s.series) THEN DefaultRiskLevels(s)
    ELSE CHOOSE out \in
           { RiskLevelsFrom(s, s.series, a, _detect_volatility_regime(s.series, a)) :
               a \in {_calculate_atr(s.series, AtrPeriod)} } : TRUE

\* _estimate_win_probability with no market regime given
_estimate_win_probability(rr_ratio) ==
    RMax(Rat(2, 10), RMin(Rat(8, 10),
        RAdd(Rat(45, 100), RMul(Rat(-5, 100), RSub(rr_ratio, RInt(2))))))

\* RiskEngine.calculate_risk_levels (engine.py); market lists most recent first
Engine_calculate_risk_levels(s) ==
    LET entry == s.entry_price
        recent_first == Reverse(s.series)
        atr == MarketContext_atr(recent_first)
        atr_pct == IF RGt(entry, RZero) THEN RMul(RDiv(atr, entry), RInt(100)) ELSE RInt(1)
        supports == FindLevels(s.support_levels, recent_first, "long", entry)
        resistances == FindLevels(s.resistance_levels, recent_first, "short", entry)
        structure == [kind |-> "levels",
                      best_support |-> IF supports = <<>> THEN NoPrice ELSE supports[1],
                      support_confidence |->
                          IF supports = <<>> THEN RZero
                          ELSE LevelConfidence(s.support_levels, recent_first, "long",
                                               supports[1]),
                      resistance_confidence |->
                          IF resistances = <<>> THEN RZero
                          ELSE LevelConfidence(s.resistance_levels, recent_first, "short",
                                               resistances[1]),
                      best_resistance |-> IF resistances = <<>> THEN NoPrice
                                          ELSE resistances[1]]
        stops == Engine_calculate_stops(entry, s.direction, structure, atr,
                                        s.enable_multi_tier_stops)
        t == Engine_calculate_targets_of(entry, s.direction,
                                         IF s.direction = "long" THEN resistances
                                         ELSE supports,
                                         atr, s.partial_exit_ratios)
        targets == t.targets
        risk_distance == RAbs(RSub(entry, stops[1].price))
        size == _calculate_position_size(s.account_balance, s.risk_per_trade_pct,
                                         entry, risk_distance, atr_pct)
        rr == _calculate_rr_ratio(entry, stops[1].price, targets[1].price)
        win_prob == _estimate_win_probability(rr)
        price_data == [i \in 1..Len(recent_first) |->
                         IF s.direction = "long" THEN recent_first[i].low
                         ELSE recent_first[i].high]
    IN  IF t.raised
          THEN [op |-> "calculate", raised |-> TRUE, error |-> "ZeroDivisionError"]
          ELSE [op |-> "calculate", raised |-> FALSE,
                entry_price |-> entry, direction |-> s.direction,
                stops |-> stops, targets |-> targets,
                position_size |-> size.position_size,
                position_size_pct |-> size.position_size_pct,
                risk_amount |-> size.risk_amount,
                risk_reward_ratio |-> rr,
                max_risk_reward_ratio |->
                    _calculate_rr_ratio(entry, stops[1].price,
                                        targets[Len(targets)].price),
                win_probability |-> win_prob,
                expected_value |-> RSub(RMul(win_prob, rr), RSub(RInt(1), win_prob)),
                guarding_line |->
                    IF _is_swing_timeframe(s.timeframe)
                      THEN GuardingLine_calculate_initial_line(entry[1], s.direction,
                                                               price_data)
                      ELSE NoLine]

-----------------------------------------------------------------------------
(* Setups handed to calculate_risk_levels of either engine                 *)

AccountBalance == 10000
RiskPerTradePcts == {1, 2}
Timeframes == {"4h", "15m"}

\* series by name: [centre, runs], oldest run first
SeriesCatalog ==
    [short         |-> [centre |-> 100, runs |-> << <<10, 1>> >>],
     flat          |-> [centre |-> 100, runs |-> << <<60, 0>> >>],
     calm60        |-> [centre |-> 100, runs |-> << <<60, 1>> >>],
     spiky         |-> [centre |-> 100, runs |-> << <<30, 1>>, <<1, 3>>, <<30, 1>> >>],
     calm          |-> [centre |-> 100, runs |-> << <<110, 1>> >>],
     flat_long     |-> [centre |-> 100, runs |-> << <<110, 0>> >>],
     quiet         |-> [centre |-> 100, runs |-> << <<96, 3>>, <<14, 1>> >>],
     at_low        |-> [centre |-> 100,
                        runs |-> << <<10, 2>>, <<1, 16>>, <<85, 2>>, <<14, 1>> >>],
     at_high       |-> [centre |-> 100,
                        runs |-> << <<10, 1>>, <<2, 37>>, <<84, 1>>, <<14, 3>> >>],
     at_extreme    |-> [centre |-> 100,
                        runs |-> << <<10, 1>>, <<1, 45>>, <<85, 1>>, <<14, 5>> >>],
     high          |-> [centre |-> 100, runs |-> << <<96, 1>>, <<14, 2>> >>],
     extreme       |-> [centre |-> 100, runs |-> << <<96, 1>>, <<14, 4>> >>],
     extreme_cheap |-> [centre |-> 1000, runs |-> << <<96, 1>>, <<14, 4>> >>],
     calm_cheap    |-> [centre |-> 1000, runs |-> << <<60, 1>> >>],
     btc           |-> [centre |-> 95000, runs |-> << <<60, 300>> >>]]

SeriesNames == DOMAIN SeriesCatalog

\* each series on a swing and on an intraday timeframe; the series at the price
\* scale of BTC on the intraday timeframe alone
SeriesTimeframes == ((SeriesNames \ {"btc"}) \X Timeframes) \cup {<<"btc", "15m">>}

\* distance of the structural levels from entry, in percent of entry; 0: none,
\* negative: support above and resistance below entry
StructureOffsets == {0, 2, 10}
InvertedOffsets == {-2}

StructureAt(entry, pct) ==
    IF pct = 0 THEN NoStructure
    ELSE [kind |-> "levels",
          best_support |-> RInt(entry - (entry * pct) \div 100),
          best_resistance |-> RInt(entry + (entry * pct) \div 100),
          support_confidence |-> Rat(ConfluenceScore, 10),
          resistance_confidence |-> Rat(ConfluenceScore, 10)]

\* what VPVRAnalyzer.get_targets returns: prices on the profit side of entry
VpvrOffsets == { <<>>, <<3>>, <<12, 3, 6, 9>> }

VpvrTargetsAt(entry, direction, offsets) ==
    [i \in 1..Len(offsets) |->
        RInt(IF direction = "long" THEN entry + (entry * offsets[i]) \div 100
             ELSE entry - (entry * offsets[i]) \div 100)]

\* partial_exit_ratios: the default and two shorter schedules
ExitSchedules ==
    { <<Rat(33, 100), Rat(33, 100), Rat(34, 100)>>, <<Rat(1, 2)>>, <<Rat(1, 4), Rat(1, 4)>> }

\* pre-calculated market levels for engine.py, in percent of entry; <<>>: none
GivenLevelOffsets == { <<>>, <<2, 10, 20>> }

DefaultExitSchedule == <<Rat(33, 100), Rat(33, 100), Rat(34, 100)>>

\* <<risk_per_trade_pct, structure offset, VPVR offsets, exit schedule,
\* enable_multi_tier_stops>>: the sizing and target inputs under the default
\* configuration, and the stop inputs under either value of the flag
RiskEngineInputs ==
    (RiskPerTradePcts \X StructureOffsets \X VpvrOffsets \X ExitSchedules \X {TRUE})
    \cup ({1} \X (StructureOffsets \cup InvertedOffsets) \X {<<>>}
             \X {DefaultExitSchedule} \X BOOLEAN)

\* <<risk_per_trade_pct, given level offsets, exit schedule, enable_multi_tier_stops>>
EngineInputs ==
    (RiskPerTradePcts \X GivenLevelOffsets \X ExitSchedules \X {TRUE})
    \cup ({1} \X GivenLevelOffsets \X {DefaultExitSchedule} \X BOOLEAN)

RiskEngineSetups ==
    { [engine |-> "risk_engine", series_name |-> n,
       series |-> BarsOfRuns(SeriesCatalog[n].centre, SeriesCatalog[n].runs),
       entry_price |-> RInt(SeriesCatalog[n].centre), direction |-> d, timeframe |-> tf,
       account_balance |-> RInt(AccountBalance), risk_per_trade_pct |-> RInt(r),
       structure |-> StructureAt(SeriesCatalog[n].centre, o),
       vpvr_targets |-> VpvrTargetsAt(SeriesCatalog[n].centre, d, v),
       partial_exit_ratios |-> x, enable_multi_tier_stops |-> m] :
        <<n, tf>> \in SeriesTimeframes, d \in Directions,
        <<r, o, v, x, m>> \in RiskEngineInputs }
    \cup
    { [engine |-> "risk_engine", series_name |-> "none", series |-> NoSeries,
       entry_price |-> RInt(100), direction |-> d, timeframe |-> "4h",
       account_balance |-> RInt(AccountBalance), risk_per_trade_pct |-> RInt(1),
       structure |-> NoStructure, vpvr_targets |-> <<>>,
       partial_exit_ratios |-> <<Rat(33, 100), Rat(33, 100), Rat(34, 100)>>,
       enable_multi_tier_stops |-> TRUE] :
        d \in Directions }

EngineSetups ==
    { [engine |-> "engine", series_name |-> n,
       series |-> BarsOfRuns(SeriesCatalog[n].centre, SeriesCatalog[n].runs),
       entry_price |-> RInt(SeriesCatalog[n].centre), direction |-> d, timeframe |-> tf,
       account_balance |-> RInt(AccountBalance), risk_per_trade_pct |-> RInt(r),
       support_levels |->
           [i \in 1..Len(g) |->
               RInt(SeriesCatalog[n].centre - (SeriesCatalog[n].centre * g[i]) \div 100)],
       resistance_levels |->
           [i \in 1..Len(g) |->
               RInt(SeriesCatalog[n].centre + (SeriesCatalog[n].centre * g[i]) \div 100)],
       partial_exit_ratios |-> x, enable_multi_tier_stops |-> m] :
        <<n, tf>> \in SeriesTimeframes, d \in Directions,
        <<r, g, x, m>> \in EngineInputs }

LevelsInit ==
    /\ SessionIdle
    /\ GuardIdle
    /\ MomentumIdle
    /\ EngineIdle
    /\ TpIdle
    /\ PairIdle
    /\ setup \in RiskEngineSetups \cup EngineSetups
    /\ computed = [op |-> "none"]

\* RiskEngine.calculate_risk_levels of risk_engine.py
CalculateRiskLevels ==
    /\ UNCHANGED nonLevelsVars
    /\ setup.engine = "risk_engine"
    /\ computed.op = "none"
    /\ computed' = RiskEngine_calculate_risk_levels(setup)
    /\ setup' = setup

\* RiskEngine.calculate_risk_levels of engine.py
EngineCalculateRiskLevels ==
    /\ UNCHANGED nonLevelsVars
    /\ setup.engine = "engine"
    /\ computed.op = "none"
    /\ computed' = Engine_calculate_risk_levels(setup)
    /\ setup' = setup

LevelsNext ==
    \/ CalculateRiskLevels
    \/ EngineCalculateRiskLevels

LevelsSpec == LevelsInit /\ [][LevelsNext]_vars

-----------------------------------------------------------------------------
(* The session endpoints of api/session_routes.py in front of the session  *)
(* manager: one registered session, addressed by id                        *)

\* the id create_session hands out, and an id no session was created under
KnownId == "s1"
UnknownId == "s0"
RequestIds == {KnownId, UnknownId}

\* manager.get_session(session_id): the session, or None
get_session(session_id) == IF session_id = KnownId THEN session ELSE NoSession

\* ExitReason values (docstring of execute_exit)
ExitReasons ==
    {"target_hit", "guarding_line_broken", "structural_support_broken",
     "opposite_mcf_signal", "momentum_exhaustion", "volume_climax",
     "safety_net_5pct", "manual_exit"}

\* an optional request field that was not sent (None)
NoReason == "(none)"

\* ExecuteExitRequest.exit_reason and its alias .reason as sent
ExitReasonFields == {NoReason, "", "target_hit", "safety_net_5pct", "stop_hit", "TARGET_HIT"}
ReasonAliasFields == {NoReason, "volume_climax", "take_profit"}

\* Python truthiness of an optional string
Falsy(str) == str \in {NoReason, ""}

\* reason_str = request.exit_reason or request.reason or "manual_exit"
ReasonStr(exit_reason, reason) ==
    IF ~Falsy(exit_reason) THEN exit_reason
    ELSE IF ~Falsy(reason) THEN reason
    ELSE "manual_exit"

\* mutant: the string is passed on as it came
ExitReasonOfAnyString(reason_str) == reason_str

\* try: ExitReason(reason_str) except ValueError: ExitReason.MANUAL
ExitReasonOf(reason_str) ==
    IF reason_str \in ExitReasons THEN reason_str ELSE "manual_exit"

\* requests sent to the endpoints
RouteEntryPrices == {100}
RouteBalances == {100000}
RouteExitPrices == {112}

\* POST /session/create, without entry_price
RouteCreateSession ==
    /\ UNCHANGED nonSessionVars
    /\ session = NoSession
    /\ \E d \in Directions, structural \in BOOLEAN :
          IF ~structural
            THEN /\ session' = session
                 /\ ret' = [op |-> "create", session_id |-> KnownId, http |-> 400]
            ELSE /\ session' = NewSession(d)
                 /\ ret' = [op |-> "create", session_id |-> KnownId, http |-> 200]

\* POST /session/{session_id}/shot
RouteTakeShot ==
    /\ UNCHANGED nonSessionVars
    /\ \E id \in RequestIds, entry \in RouteEntryPrices, dist \in StopDistances,
          balance \in RouteBalances :
          LET s == get_session(id)
              stop  == StopFor(s.direction, entry, dist)
              k     == Len(s.shots) + 1
              cap   == TotalRiskCap(balance, s.cap_pct)
              alloc == IF k <= Len(ShotAllocationPct)
                         THEN AllocatedRisk(balance, s.cap_pct, k) ELSE RZero
          IN  IF s = NoSession \/ k > Len(ShotAllocationPct) \/ ShotRejected(s, alloc, cap)
                THEN \* manager.take_shot returned None
                     /\ session' = session
                     /\ ret' = [op |-> "take_shot", session_id |-> id, http |-> 400]
                ELSE /\ session' = SessionAfterShot(s, entry, stop, balance)
                     /\ ret' = [op |-> "take_shot", session_id |-> id, http |-> 200]

\* POST /session/{session_id}/update: the response is built from whatever the
\* manager returned; nothing from an unknown id can be put in a response, and
\* the error ends in the application's exception handler
RouteUpdateSession ==
    /\ UNCHANGED nonSessionVars
    /\ \E id \in RequestIds, bar \in UpdateBars :
          LET s == get_session(id)
          IN  IF s = NoSession
                THEN /\ session' = session
                     /\ ret' = [op |-> "update", session_id |-> id, http |-> 500]
                ELSE /\ session' = IF s.status \in {"active", "partial"}
                                     THEN [s EXCEPT !.phase = PhaseAfterUpdate(@, bar)]
                                     ELSE s
                     /\ ret' = [op |-> "update", session_id |-> id, http |-> 200]

\* POST /session/{session_id}/exit
RouteExecuteExit ==
    /\ UNCHANGED nonSessionVars
    /\ \E id \in RequestIds, exit_reason \in ExitReasonFields, alias \in ReasonAliasFields,
          price \in RouteExitPrices, pct \in ExitPercentages :
          LET s == get_session(id)
              reason == ExitReasonOf(ReasonStr(exit_reason, alias))
          IN  IF s = NoSession
                THEN /\ session' = session
                     /\ ret' = [op |-> "exit", session_id |-> id, http |-> 404]
                ELSE /\ pct < 100 => s.exits < MaxExits
                     /\ IF CanExit(s)
                          THEN /\ session' = SessionAfterExit(s, price, pct)
                               /\ ret' = [op |-> "exit", session_id |-> id, http |-> 200,
                                          exit_reason |-> exit_reason, alias |-> alias,
                                          reason |-> reason, percentage |-> pct]
                          ELSE \* manager.execute_exit returned None
                               /\ session' = session
                               /\ ret' = [op |-> "exit", session_id |-> id, http |-> 400,
                                          exit_reason |-> exit_reason, alias |-> alias,
                                          reason |-> reason, percentage |-> pct]

\* GET /session/{session_id}
RouteGetSession ==
    /\ UNCHANGED nonSessionVars
    /\ \E id \in RequestIds :
          /\ session' = session
          /\ ret' = [op |-> "get", session_id |-> id,
                     http |-> IF get_session(id) = NoSession THEN 404 ELSE 200]

\* DELETE /session/{session_id}: manager.close_session reports success
RouteCloseSession ==
    /\ UNCHANGED nonSessionVars
    /\ \E id \in RequestIds :
          LET s == get_session(id)
          IN  IF s = NoSession
                THEN /\ session' = session
                     /\ ret' = [op |-> "close", session_id |-> id, http |-> 404]
                ELSE /\ session' = [s EXCEPT !.status = StatusAfterClose(@)]
                     /\ ret' = [op |-> "close", session_id |-> id, http |-> 200]

RouteInit == Init

RouteNext ==
    \/ RouteCreateSession
    \/ RouteTakeShot
    \/ RouteUpdateSession
    \/ RouteExecuteExit
    \/ RouteGetSession
    \/ RouteCloseSession

RouteSpec == RouteInit /\ [][RouteNext]_vars

-----------------------------------------------------------------------------
(* Properties of the risk budget and the session lifecycle                 *)

RECURSIVE SumRisk(_)
SumRisk(shots) ==
    IF shots = <<>> THEN RZero
    ELSE RAdd(shots[1].risk_amount, SumRisk(Tail(shots)))

HasShots == session # NoSession /\ Len(session.shots) > 0

LastShot == session.shots[Len(session.shots)]

\* C1: after any sequence of take_shot calls, accepted or rejected, the risk
\* of all recorded shots sums to at most account_balance * total_risk_cap_pct
\* / 100, the balance being the one the latest recorded shot was allocated
\* with (the cap is enforced when a shot is allocated).
C1_RiskWithinCap ==
    HasShots =>
        /\ RLe(SumRisk(session.shots),
               Rat(LastShot.balance * session.cap_pct, 100))
        /\ session.risk_used = SumRisk(session.shots)

\* a full budget: three shots that use the whole cap of a $100,000 account,
\* reached although further requests keep arriving
C1_Witness ==
    /\ HasShots
    /\ Len(session.shots) = 3
    /\ SumRisk(session.shots) = RInt(2000)
    /\ ret.op = "take_shot" /\ ~ret.ok

\* C2: in a 3-shot budget the k-th accepted shot is allocated 50%, 30%, 20%
\* of the total cap (1000 / 600 / 400 dollars for 2% of 100,000), its size
\* is the allocated risk divided by |entry - stop|, and no fourth shot is
\* ever recorded.
C2_ShotSchedule ==
    /\ session # NoSession => Len(session.shots) <= 3
    /\ (ret.op = "take_shot" /\ ret.ok) =>
          /\ ret.shot_number = Len(session.shots)
          /\ ret.risk_amount =
                Rat(ret.balance * 2 * (CASE ret.shot_number = 1 -> 50
                                         [] ret.shot_number = 2 -> 30
                                         [] ret.shot_number = 3 -> 20), 10000)
          /\ ret.balance = 100000 =>
                ret.risk_amount = (CASE ret.shot_number = 1 -> RInt(1000)
                                     [] ret.shot_number = 2 -> RInt(600)
                                     [] ret.shot_number = 3 -> RInt(400))
          /\ RMul(ret.size, RInt(Abs(ret.entry_price - ret.stop_price))) = ret.risk_amount
          /\ LastShot.risk_amount = ret.risk_amount /\ LastShot.size = ret.size
    /\ (ret.op = "take_shot" /\ session # NoSession /\ Len(session.shots) = 3
          /\ ret.ok) => ret.shot_number = 3

\* the third shot of a $100,000 budget has just been taken: 400 dollars
C2_Witness ==
    /\ ret.op = "take_shot" /\ ret.ok
    /\ ret.shot_number = 3 /\ ret.balance = 100000
    /\ ret.risk_amount = RInt(400)
    /\ session.shots[1].risk_amount = RInt(1000)
    /\ session.shots[2].risk_amount = RInt(600)

\* C3: take_shot returns none and leaves budget and session untouched
\* whenever max_shots shots are recorded, the session is closed or expired,
\* or the allocation would exceed the remaining cap; and a refused request
\* never changes anything.
C3_RejectedShotChangesNothing ==
    [][ ret'.op = "take_shot" =>
          /\ ( \/ session.status \in {"closed", "expired"}
               \/ Len(session.shots) >= session.max_shots
               \/ RGt(Rat(ret'.balance * session.cap_pct
                            * ShotAllocationPct[Len(session.shots) + 1], 10000),
                      RSub(Rat(ret'.balance * session.cap_pct, 100),
                           SumRisk(session.shots))) )
             => (~ret'.ok /\ session' = session)
          /\ ~ret'.ok => session' = session ]_vars

\* a request refused for lack of remaining cap, on a live session
C3_Witness ==
    /\ ret.op = "take_shot" /\ ~ret.ok /\ ret.why = "cap"
    /\ session.status \in {"active", "partial"}
    /\ Len(session.shots) < session.max_shots

StatusEdges ==
    { <<"none", "pending">>, <<"pending", "active">>,
      <<"active", "partial">>, <<"active", "closed">>, <<"active", "expired">>,
      <<"partial", "partial">>, <<"partial", "closed">> }

-----------------------------------------------------------------------------
\* C9: once the guarding line is active, the level get_current_level returns
\* never decreases for a long position and never increases for a short one,
\* from one bar to the next and across update_line / update_slope adjustments.
C9_GuardingLevelMonotone ==
    [][ (GuardActive /\ GuardActive') =>
          \E lv \in {<<GuardLevel, GuardLevel'>>} :
              IF gdir = "long" THEN RGe(lv[2], lv[1]) ELSE RLe(lv[2], lv[1]) ]_vars

\* an active line, several bars past activation, that an adjustment has just moved
C9_Witness ==
    /\ GuardActive
    /\ gbars >= gline.activation_bar + 2
    /\ gret.op \in {"update_line", "update_slope"}
    /\ gret.changed
    /\ gline.slope # RZero

-----------------------------------------------------------------------------
\* C8: once momentum trailing is active it stays active and its trailing level
\* only moves favourably (never down for a long, never up for a short), and an
\* update on an active state returns should_exit exactly when the current price
\* is beyond the level the update leaves behind (long: below; short: above).
C8_MomentumTrailRatchets ==
    /\ [][ mstate.active =>
            /\ mstate'.active
            /\ IF mdir = "long"
                 THEN RGe(mstate'.trailing_level, mstate.trailing_level)
                 ELSE RLe(mstate'.trailing_level, mstate.trailing_level) ]_vars
    /\ [] ( (mret.op = "update" /\ mstate.active) =>
            ( mret.should_exit <=>
                IF mdir = "long"
                  THEN RLt(mret.current_price, mstate.trailing_level)
                  ELSE RGt(mret.current_price, mstate.trailing_level) ) )

\* a second or later update on an active state, at a price off the peak, that
\* reported the exit
C8_Witness ==
    /\ mret.op = "update"
    /\ mret.was_active
    /\ mret.should_exit
    /\ mstate.bars_in_momentum >= 2
    /\ RLt(mret.current_price, mstate.peak_price) \/ RGt(mret.current_price, mstate.peak_price)

-----------------------------------------------------------------------------
RiskEngineCalled == engine = "risk_engine" /\ call.op = "update_position"

GuardingExit == [signal |-> TRUE, reason |-> "guarding", pct |-> 100]

\* C6 as stated: within one update_position call an exit signal set by an
\* earlier block (momentum trailing, divergence, fixed targets, structure
\* health, in that order) is still the reported one after every later block,
\* unless a guarding-line breach replaced it.
C6_EarlierExitNeverOverwritten ==
    RiskEngineCalled =>
        /\ steps.momentum.signal => steps.divergence = steps.momentum
        /\ steps.divergence.signal => steps.targets = steps.divergence
        /\ steps.targets.signal =>
              \/ steps.guarding = steps.targets
              \/ result.guarding_broken /\ steps.guarding = GuardingExit
        /\ steps.guarding.signal => steps.structure = steps.guarding
        /\ ExitOf(result) = steps.structure

\* C6 amended: one exit reason and percentage is reported per call; a momentum
\* trailing exit survives the divergence and fixed-target blocks and structure
\* health never replaces a signal already set, but a fixed target touched while
\* momentum trailing is inactive replaces a divergence exit of the same call,
\* and a guarding-line breach replaces any earlier signal.
C6_ExitPrecedence ==
    RiskEngineCalled =>
        /\ steps.momentum.signal =>
              steps.divergence = steps.momentum /\ steps.targets = steps.momentum
        /\ steps.divergence.signal /\ ~steps.momentum.signal =>
              IF FirstTargetHit(levels.direction, call.current_price, levels.targets) = 0
                THEN steps.targets = steps.divergence
                ELSE /\ steps.targets.signal
                     /\ steps.targets.reason = "target"
                     /\ steps.targets.pct =
                          levels.targets[FirstTargetHit(levels.direction, call.current_price,
                                                        levels.targets)].exit_percentage
        /\ IF result.guarding_broken THEN steps.guarding = GuardingExit
           ELSE steps.guarding = steps.targets
        /\ steps.guarding.signal => steps.structure = steps.guarding
        /\ ExitOf(result) = steps.structure

\* a call in which divergence signalled its partial exit and the fixed-target
\* block then reported the target instead
C6_Witness ==
    /\ RiskEngineCalled
    /\ steps.divergence.signal
    /\ steps.divergence.reason = "divergence"
    /\ steps.targets.reason = "target"
    /\ result.divergence_detected

\* a call in which momentum trailing signalled the exit and structure health,
\* found broken, left it in place
C6_WitnessMomentumKept ==
    /\ RiskEngineCalled
    /\ steps.momentum.signal
    /\ result.structure_health = "broken"
    /\ result.exit_reason = "momentum"

\* C7: over all update_position calls for one position at most one call reports
\* moved_to_breakeven, and a call that reports it has current R-multiple at
\* least breakeven_trigger_r.
C7_BreakevenAtMostOnce ==
    /\ be_moves <= 1
    /\ result.moved_to_breakeven =>
          RGe(result.current_r_multiple, RInt(BreakevenTriggerR))

\* the stop was moved in an earlier call, and a later call that again reached
\* the trigger did not move it a second time
C7_Witness ==
    /\ RiskEngineCalled
    /\ be_moves = 1
    /\ result.breakeven_hit
    /\ ~result.moved_to_breakeven
    /\ levels.stops[1].type = "breakeven"

\* the level on the line at the bar of the last call
LineLevelAtCall ==
    RAdd(levels.guarding_line.intercept,
         RMul(levels.guarding_line.slope,
              RInt(call.bars_since_entry - levels.guarding_line.activation_bar)))

PriceBeyond(level) ==
    IF levels.direction = "long" THEN RLt(call.current_price, level)
    ELSE RGt(call.current_price, level)

\* C10: update_position reports neither guarding_active nor guarding_broken
\* below the activation bar; from the activation bar on the level is
\* intercept + slope * (bars_since_entry - activation_bar), and a price beyond
\* it against the trade gives guarding_broken, exit_signal and
\* exit_percentage 100 whatever the earlier blocks of the call signalled.
C10_GuardingActivationAndBreach ==
    call.op = "update_position" =>
        IF call.bars_since_entry < levels.guarding_line.activation_bar
          THEN ~result.guarding_active /\ ~result.guarding_broken
          ELSE /\ result.guarding_active
               /\ engine = "risk_engine" => result.guarding_level = LineLevelAtCall
               /\ result.guarding_broken <=> PriceBeyond(LineLevelAtCall)
               /\ PriceBeyond(LineLevelAtCall) =>
                     result.exit_signal /\ result.exit_percentage = 100

\* a breach in a call whose fixed-target block had already signalled a partial
\* exit
C10_Witness ==
    /\ RiskEngineCalled
    /\ call.bars_since_entry >= levels.guarding_line.activation_bar
    /\ result.guarding_broken
    /\ steps.targets.signal
    /\ steps.targets.pct < 100
    /\ result.exit_percentage = 100

-----------------------------------------------------------------------------
(* Properties of calculate_risk_levels                                     *)

\* the call returned a RiskLevels (it did not raise)
Returned == computed.op = "calculate" /\ ~computed.raised

\* the call went past the data check and computed stops and targets
ComputedFromData == Returned /\ computed.stops # <<>>

Beyond(price, entry, direction) ==
    IF direction = "long" THEN RGt(price, entry) ELSE RLt(price, entry)

Short(price, entry, direction) ==
    IF direction = "long" THEN RLt(price, entry) ELSE RGt(price, entry)

\* C11: in every RiskLevels calculate_risk_levels computes, every stop price is
\* strictly on the loss side of entry (below for long, above for short) and
\* every target price strictly on the profit side, zero-ATR series and series
\* of fewer than 14 bars included.
C11_StopsAndTargetsStraddleEntry ==
    Returned =>
        /\ \A i \in 1..Len(computed.stops) :
              Short(computed.stops[i].price, computed.entry_price, computed.direction)
        /\ \A i \in 1..Len(computed.targets) :
              Beyond(computed.targets[i].price, computed.entry_price, computed.direction)

\* C12: in every stop ladder calculate_risk_levels computes, distance_pct of
\* every stop (structural or ATR primary, secondary, safety net) is at most
\* max_stop_pct.
C12_StopDistanceWithinMax ==
    Returned =>
        \A i \in 1..Len(computed.stops) :
            RLe(computed.stops[i].distance_pct, RInt(MaxStopPct))

RECURSIVE SumExitPct(_)
SumExitPct(targets) ==
    IF targets = <<>> THEN RZero
    ELSE RAdd(targets[1].exit_percentage, SumExitPct(Tail(targets)))

\* C13: for every computed target ladder (structural, volume-profile or
\* R-multiple fallback) under any configured partial_exit_ratios schedule, the
\* exit percentages of the targets (none of them dynamic) sum to at most 100.
C13_ExitPercentagesWithin100 ==
    Returned => RLe(SumExitPct(computed.targets), RInt(100))

\* effective_risk_pct / base risk_per_trade_pct, read back from risk_amount =
\* account_balance * effective_risk_pct / 100
EffectiveRiskRatio ==
    RDiv(RMul(computed.risk_amount, RInt(100)),
         RMul(setup.account_balance, setup.risk_per_trade_pct))

\* engine.py has no volatility regime
RegimeOfResult ==
    IF setup.engine = "risk_engine" THEN computed.volatility_regime ELSE "normal"

RatioWithin(lo, hi) == RGe(EffectiveRiskRatio, lo) /\ RLe(EffectiveRiskRatio, hi)

\* C14 as stated: for every RiskLevels computed from data, in every volatility
\* regime (extreme included), risk_amount is account_balance *
\* effective_risk_pct / 100 with effective_risk_pct / base risk percentage
\* within [0.5, 2.0].
C14_RiskRatioWithinHalfAndDouble ==
    ComputedFromData => RatioWithin(Rat(1, 2), RInt(2))

\* C14: for every RiskLevels computed from data, effective_risk_pct / base risk
\* percentage lies within [0.5, 2.0] outside the extreme regime, and within
\* [0.25, 1.0] in the extreme regime, where the size reduction multiplies the
\* clamped volatility factor.
C14_RiskRatioByRegime ==
    ComputedFromData =>
        IF RegimeOfResult = "extreme" THEN RatioWithin(Rat(1, 4), RInt(1))
        ELSE RatioWithin(Rat(1, 2), RInt(2))

\* an extreme-regime result whose effective risk is a quarter of the base
C14_Witness ==
    /\ ComputedFromData
    /\ RegimeOfResult = "extreme"
    /\ EffectiveRiskRatio = Rat(1, 4)
    /\ RGt(computed.position_size, RZero)

RiskEngineReturned == Returned /\ setup.engine = "risk_engine"

BelowMinimumRr == RLt(computed.risk_reward_ratio, RInt(MinRrForEntry))

\* C15 as stated: with the entry gate enabled, every RiskLevels that
\* calculate_risk_levels of risk_engine.py returns has entry_blocked exactly
\* when its risk_reward_ratio is below min_rr_for_entry.
C15_BlockedIffBelowMinimum ==
    RiskEngineReturned => (computed.entry_blocked <=> BelowMinimumRr)

\* C15: with the entry gate enabled, every RiskLevels computed from a series of
\* at least the minimum number of bars has entry_blocked exactly when its
\* risk_reward_ratio is below min_rr_for_entry, and a blocked setup is returned
\* with its stops, targets and sizing; the default RiskLevels returned for
\* insufficient data carries risk_reward_ratio 0 and is not flagged.
C15_BlockedIffBelowMinimumOnData ==
    RiskEngineReturned =>
        IF InsufficientData(setup.series)
          THEN ~computed.entry_blocked /\ computed.risk_reward_ratio = RZero
          ELSE /\ computed.entry_blocked <=> BelowMinimumRr
               /\ computed.stops # <<>>
               /\ computed.targets # <<>>

\* a setup with a positive R:R below the minimum, flagged and returned in full
C15_Witness ==
    /\ RiskEngineReturned
    /\ computed.entry_blocked
    /\ RGt(computed.risk_reward_ratio, RZero)
    /\ BelowMinimumRr
    /\ Len(computed.stops) = 3
    /\ computed.targets # <<>>
    /\ RGt(computed.position_size, RZero)

ZeroRiskDistance ==
    computed.stops # <<>> /\ computed.stops[1].price = computed.entry_price

\* C16: calculate_risk_levels raises no division-by-zero error when the ATR is
\* zero (fewer than 14 bars, or a flat series) or the risk distance is zero: it
\* returns, with the position size and the risk:reward ratio zero where the
\* risk distance is zero.
C16_NoDivisionByZero ==
    computed.op = "calculate" =>
        /\ ~computed.raised
        /\ ZeroRiskDistance =>
              /\ computed.position_size = RZero
              /\ computed.risk_reward_ratio = RZero

\* C19: calculate_risk_levels of risk_engine.py, given no series for the
\* requested timeframe or a series of fewer bars than the minimum, returns
\* without raising a default RiskLevels: no stops, no targets, zero position
\* size and zero risk amount.
C19_DefaultOnInsufficientData ==
    (RiskEngineReturned /\ (setup.series = NoSeries \/ Len(setup.series) < 50)) =>
        /\ ~computed.raised
        /\ computed.stops = <<>>
        /\ computed.targets = <<>>
        /\ computed.position_size = RZero
        /\ computed.risk_amount = RZero

\* a call with a series present but shorter than the minimum
C19_Witness ==
    /\ RiskEngineReturned
    /\ setup.series # NoSeries
    /\ Len(setup.series) < 50
    /\ computed.stops = <<>>
    /\ computed.risk_amount = RZero

\* current ATR over baseline ATR of the setup's series; <<0, 0>> where the
\* baseline is zero or the series shorter than the lookback
RegimeRatio ==
    IF Len(setup.series) < 100 THEN <<0, 0>>
    ELSE CHOOSE out \in
           { IF b = RZero THEN <<0, 0>> ELSE RDiv(computed.atr_current, b) :
               b \in {_calculate_atr(setup.series, 100)} } : TRUE

\* C20: the regime reported is a function of ratio = current ATR / baseline
\* ATR: low below 0.5, extreme above 2.5, high above 1.5 up to 2.5, normal
\* otherwise (0.5 and 1.5 are normal, 2.5 is high); with fewer bars than the
\* lookback or a zero baseline it is normal.
C20_RegimeOfRatio ==
    (RiskEngineReturned /\ ~InsufficientData(setup.series)) =>
        \E ratio \in {RegimeRatio} :
            computed.volatility_regime =
                IF ratio = <<0, 0>> THEN "normal"
                ELSE IF RLt(ratio, Rat(1, 2)) THEN "low"
                ELSE IF RGt(ratio, Rat(5, 2)) THEN "extreme"
                ELSE IF RGt(ratio, Rat(3, 2)) /\ RLe(ratio, Rat(5, 2)) THEN "high"
                ELSE "normal"

\* a series whose ratio is exactly 2.5, reported as high
C20_Witness ==
    /\ RiskEngineReturned
    /\ ~InsufficientData(setup.series)
    /\ RegimeRatio = Rat(5, 2)
    /\ computed.volatility_regime = "high"

-----------------------------------------------------------------------------
(* Properties of the session endpoints                                     *)

SessionOperations == {"take_shot", "update", "exit", "get", "close"}

\* C17: every session operation (take_shot, update_session, execute_exit, get,
\* close) addressed to an unknown session id ends in the not-found outcome
\* (404), which is not the client-error outcome (400) that rejected requests on
\* existing sessions get.
C17_UnknownSessionIsNotFound ==
    (ret.op \in SessionOperations /\ ret.session_id = UnknownId) => ret.http = 404

\* C18: execute_exit on an existing session hands the manager manual_exit when
\* the exit-reason string sent (exit_reason, else its alias reason) is outside
\* the enumeration or absent, and the string itself when it is inside; the
\* outcome of the exit does not depend on the reason.
C18_UnknownReasonBecomesManual ==
    [][(ret'.op = "exit" /\ get_session(ret'.session_id) # NoSession) =>
          \E sent \in {IF ret'.exit_reason \notin {NoReason, ""} THEN ret'.exit_reason
                       ELSE ret'.alias} :
             /\ sent \in ExitReasons => ret'.reason = sent
             /\ sent \notin ExitReasons => ret'.reason = "manual_exit"
             /\ ret'.http = IF CanExit(session) THEN 200 ELSE 400]_vars

\* an exit sent with a string outside the enumeration, executed as manual_exit
C18_Witness ==
    /\ ret.op = "exit"
    /\ ret.http = 200
    /\ ret.exit_reason = "stop_hit"
    /\ ret.reason = "manual_exit"

-----------------------------------------------------------------------------
(* Properties of update_position over the bars of a position               *)

\* a is at least as protective a stop as b
NotWorseStop(a, b, direction) ==
    IF direction = "long" THEN RGe(a, b) ELSE RLe(a, b)

\* the price at which a position entered at entry with its stop at stop is
\* one risk distance in profit
PriceAtOneR(entry, stop) == RAdd(entry, RSub(entry, stop))

\* C21: across successive update_position calls of risk_engine.py the stored
\* primary stop never moves against the position; it changes only by the move
\* to the breakeven price, in a call with R >= the breakeven trigger and the
\* breakeven price strictly better than the stop; and in a call at price =
\* entry + (entry - stop), the stop not yet moved, breakeven_hit is reported
\* and the stored stop ends strictly better than it was.
C21_StopMovesOnlyToBreakeven ==
    [][(engine = "risk_engine" /\ call'.op = "update_position") =>
          \E old \in {levels.stops[1].price}, new \in {levels'.stops[1].price} :
             /\ NotWorseStop(new, old, levels.direction)
             /\ \A i \in 2..Len(levels.stops) : levels'.stops[i] = levels.stops[i]
             /\ new # old =>
                   /\ RGe(result'.current_r_multiple, RInt(1))
                   /\ result'.breakeven_hit /\ result'.moved_to_breakeven
                   /\ new = _calculate_breakeven_price(levels.entry_price, levels.direction)
                   /\ result'.new_stop_price = new
             /\ (levels.stops[1].type # "breakeven"
                   /\ call'.current_price = PriceAtOneR(levels.entry_price, old)) =>
                   /\ result'.breakeven_hit
                   /\ new # old]_vars

\* a long position whose stop went to breakeven on the bar where R is exactly 1
C21_Witness ==
    /\ engine = "risk_engine"
    /\ levels.direction = "long"
    /\ call.op = "update_position"
    /\ result.current_r_multiple = RInt(1)
    /\ result.moved_to_breakeven
    /\ levels.stops[1].type = "breakeven"
    /\ RGt(levels.stops[1].price, levels.entry_price)

\* the first target of the ladder that the price of the last call has reached
FirstTouched == FirstTargetHit(levels.direction, call.current_price, levels.targets)

TargetExitReported(i) ==
    /\ result.exit_signal
    /\ result.exit_reason = "target"
    /\ result.exit_percentage = levels.targets[i].exit_percentage

\* C22: every update_position call of risk_engine.py whose result reports
\* momentum trailing inactive, at a price that has reached a fixed target,
\* reports a target exit with the exit fraction of the first target touched in
\* ladder order, unless a guarding-line breach overrides it; a call whose
\* result reports momentum trailing active reports no fixed-target exit.
C22_TargetExitWhenMomentumInactive ==
    (engine = "risk_engine" /\ call.op = "update_position") =>
        /\ (~result.momentum_trailing_active /\ FirstTouched # 0) =>
              IF result.guarding_broken THEN result.exit_reason = "guarding"
              ELSE TargetExitReported(FirstTouched)
        /\ result.momentum_trailing_active => result.exit_reason # "target"

\* |entry - initial primary stop|: the stop's distance_pct is set when the
\* ladder is computed and not touched afterwards
InitialRiskDistance ==
    RDiv(RMul(RAbs(levels.stops[1].distance_pct), levels.entry_price), RInt(100))

ProfitDistance ==
    IF levels.direction = "long" THEN RSub(call.current_price, levels.entry_price)
    ELSE RSub(levels.entry_price, call.current_price)

\* C24: on every bar the current R-multiple update_position of risk_engine.py
\* reports is the signed profit distance over the initial risk distance
\* |entry - initial primary stop|, before and after the stop has gone to
\* breakeven.
C24_RMultipleOverInitialRisk ==
    (engine = "risk_engine" /\ call.op = "update_position") =>
        result.current_r_multiple = RDiv(ProfitDistance, InitialRiskDistance)

\* what the caller handed to the last update_position call
LastSnapshot == CHOOSE sn \in Snapshots(levels.direction) : sn.name = call.snapshot

\* the adverse excursion of the last call exceeds 3% of the price
AdverseExcursion ==
    LET sn == LastSnapshot
    IN  IF levels.direction = "long"
          THEN 100 * (SeqMax(Suffix(sn.recent_highs, 10)) - sn.price) > 3 * sn.price
          ELSE 100 * (sn.price - SeqMin(Suffix(sn.recent_lows, 10))) > 3 * sn.price

\* C25: given at least three recent lows and highs, update_position of
\* risk_engine.py reports structure_health = broken whenever the adverse
\* excursion exceeds 3%; a broken verdict sets exit_signal with
\* exit_percentage 100 when no exit was signalled earlier in the call, and
\* leaves an exit signalled earlier as it was.
C25_BrokenStructureOnAdverseExcursion ==
    (/\ engine = "risk_engine"
     /\ call.op = "update_position"
     /\ Len(LastSnapshot.recent_lows) >= 3
     /\ Len(LastSnapshot.recent_highs) >= 3) =>
        /\ AdverseExcursion => result.structure_health = "broken"
        /\ result.structure_health = "broken" =>
              IF steps.guarding.signal THEN ExitOf(result) = steps.guarding
              ELSE /\ result.exit_signal
                   /\ result.exit_reason = "structure"
                   /\ result.exit_percentage = 100

-----------------------------------------------------------------------------
(* Properties of the momentum trailing take-profit                         *)

\* slope_pct points the way of the trade
SlopeWithTrade(slope_pct, direction) ==
    IF direction = "long" THEN RGt(slope_pct, RZero) ELSE RLt(slope_pct, RZero)

\* C23: MomentumTrailingTP.update turns an inactive state active only in a call
\* with current_r >= min_r_to_activate, the slope of the recent closes pointing
\* in the trade direction with magnitude >= min_slope_to_activate, and slope
\* strength >= 0.3; in every other call an inactive state stays as it was and
\* no exit is returned.
C23_ActivationNeedsSlopeWithTrade ==
    [][(mret'.op = "update" /\ ~mstate.active) =>
          IF mstate'.active
            THEN /\ RGe(mret'.current_r, RInt(1))
                 /\ SlopeWithTrade(mstate'.slope, mdir)
                 /\ RGe(RAbs(mstate'.slope), Rat(2, 1000))
                 /\ RGe(mstate'.slope_strength, Rat(3, 10))
                 /\ ~mret'.should_exit
            ELSE mstate' = mstate /\ ~mret'.should_exit]_vars

-----------------------------------------------------------------------------
(* Properties of the stop ladder of calculate_risk_levels                  *)

StopDistance(stop) == RAbs(RSub(stop.price, computed.entry_price))

\* C26: every stop ladder calculate_risk_levels returns is ordered tightest
\* first: the primary stop comes first and the distance of the stops from
\* entry never decreases along the ladder (primary, secondary, safety net).
C26_LadderTightestFirst ==
    ComputedFromData =>
        \A i \in 1..(Len(computed.stops) - 1) :
            RLe(StopDistance(computed.stops[i]), StopDistance(computed.stops[i + 1]))

\* the ATR the ladder was computed from
LadderAtr ==
    IF setup.engine = "risk_engine" THEN computed.atr_current
    ELSE MarketContext_atr(Reverse(setup.series))

\* the structural level on the protective side the ladder was computed from
LadderLevel ==
    IF setup.engine = "risk_engine"
      THEN IF setup.structure = NoStructure THEN NoPrice
           ELSE IF setup.direction = "long" THEN setup.structure.best_support
           ELSE setup.structure.best_resistance
      ELSE LET found == FindLevels(IF setup.direction = "long" THEN setup.support_levels
                                   ELSE setup.resistance_levels,
                                   Reverse(setup.series), setup.direction,
                                   setup.entry_price)
           IN  IF found = <<>> THEN NoPrice ELSE found[1]

\* the structural level is absent, not on the loss side of entry, or its stop
\* (the level with a buffer of 0.2 ATR) is farther than max_stop_pct
NoStructuralStop ==
    LET entry == setup.entry_price
        buffer == RMul(LadderAtr, Rat(2, 10))
    IN  \/ LadderLevel = NoPrice
        \/ ~Short(LadderLevel, entry, setup.direction)
        \/ RGt(RMul(RDiv(RAdd(RAbs(RSub(entry, LadderLevel)), buffer), entry), RInt(100)),
               RInt(MaxStopPct))

\* entry moved by k to the loss side
LossSide(k) ==
    IF setup.direction = "long" THEN RSub(setup.entry_price, k)
    ELSE RAdd(setup.entry_price, k)

StopPrices == [i \in 1..Len(computed.stops) |-> computed.stops[i].price]

\* C27: where the structural level is absent, not on the loss side of entry
\* or farther than max_stop_pct, the primary stop is entry -/+ ATR x
\* atr_stop_multiplier with confidence 0.6; with multi-tier stops enabled the
\* ladder is exactly [primary, entry -/+ 1.5 x ATR x multiplier, entry x (1 -/+
\* max_stop_pct / 100)] (entry 95000, ATR 600, long: 93800, 93200, 90250) and
\* with multi-tier stops disabled it is [primary] alone.
C27_AtrFallbackLadder ==
    (ComputedFromData /\ NoStructuralStop) =>
        LET risk == RMul(LadderAtr, RInt(AtrStopMultiplier))
        IN  /\ computed.stops[1].price = LossSide(risk)
            /\ computed.stops[1].confidence = Rat(6, 10)
            /\ setup.enable_multi_tier_stops =>
                   StopPrices = << LossSide(risk), LossSide(RMul(risk, Rat(3, 2))),
                                   LossSide(RMul(setup.entry_price, Rat(MaxStopPct, 100))) >>
            /\ ~setup.enable_multi_tier_stops => Len(computed.stops) = 1
            /\ (setup.series_name = "btc" /\ setup.direction = "long"
                    /\ setup.enable_multi_tier_stops) =>
                   StopPrices = << RInt(93800), RInt(93200), RInt(90250) >>

C27_Witness ==
    /\ ComputedFromData
    /\ NoStructuralStop
    /\ setup.series_name = "btc"
    /\ setup.direction = "long"
    /\ LadderAtr = RInt(600)
    /\ setup.enable_multi_tier_stops
    /\ StopPrices = << RInt(93800), RInt(93200), RInt(90250) >>

-----------------------------------------------------------------------------
(* Properties of the guarding line of guarding_line.py                     *)

\* the line is one GuardingLine.calculate_initial_line returns
FromGuardingLine ==
    gline \in { GuardingLine_calculate_initial_line(e, gdir, data) :
                  e \in TradeEntries, data \in InitialPriceData }

\* C28: before its activation bar, get_current_level puts every line that
\* GuardingLine.calculate_initial_line can produce on the far protective side
\* of its intercept (below for long, above for short), so that check_break
\* reports no break for a price at the intercept.
C28_InactiveLevelOnProtectiveSide ==
    (FromGuardingLine /\ gbars < gline.activation_bar) =>
        /\ IF gdir = "long" THEN RLt(GuardLevel, gline.intercept)
           ELSE RGt(GuardLevel, gline.intercept)
        /\ ~check_break(gline.intercept, GuardLevel, gdir)

\* the slope runs with the trade, is not zero, and is between min_slope_pct
\* and max_slope_pct of entry per bar
SlopeWithinBand(slope, direction, entry) ==
    /\ IF direction = "long" THEN RGt(slope, RZero) ELSE RLt(slope, RZero)
    /\ RLe(MinSlopePct, RDiv(RAbs(slope), RInt(entry)))
    /\ RLe(RDiv(RAbs(slope), RInt(entry)), MaxSlopePct)

\* C29: for every input series, series of fewer than 5 points and series
\* trending against the trade included, calculate_initial_line of either class
\* returns a slope with the sign of the trade direction, never zero, between
\* min_slope_pct% and max_slope_pct% of entry per bar.
C29_InitialSlopeWithinBand ==
    gret.op = "calculate_initial_line" =>
        \A e \in TradeEntries, data \in InitialPriceData :
            gline \in { GuardingLineManager_calculate_initial_line(e, gdir, data),
                        GuardingLine_calculate_initial_line(e, gdir, data) }
                => SlopeWithinBand(gline.slope, gdir, e)

-----------------------------------------------------------------------------
(* Properties of the momentum state RiskEngine keeps per position          *)

ActiveKeys == {k \in DOMAIN momentum_states : momentum_states[k].active}

\* what the first update after a reset leaves for its key: nothing, an
\* untouched new state, or a state activated by this very call
FreshState(states, res, c) ==
    c.session_id \in DOMAIN states =>
        LET st == states[c.session_id]
        IN  IF st.active
              THEN /\ st.activation_r = res.current_r_multiple
                   /\ st.peak_price = c.current_price
                   /\ st.bars_in_momentum = 0
              ELSE st = NewMomentumState

\* C30: a momentum state that is active stays active through every later
\* update_position call for its key, calls after a momentum exit and calls
\* without bar data included, until reset_momentum_state is called for the
\* key; the reset removes the state, and the next update starts from a new
\* inactive state with no trailing level, peak price or activation_r carried over.
C30_ActiveUntilReset ==
    [][ /\ \A k \in ActiveKeys :
             IF call'.op = "reset_momentum_state" /\ call'.session_id = k
               THEN k \notin DOMAIN momentum_states'
               ELSE k \in DOMAIN momentum_states' /\ momentum_states'[k].active
        /\ (call.op = "reset_momentum_state" /\ call'.op = "update_position"
                /\ call'.session_id = call.session_id)
             => FreshState(momentum_states', result', call')
      ]_vars

\* an active state was kept through a call made without bar data
C30_Witness ==
    /\ RiskEngineCalled
    /\ call.snapshot = "quiet"
    /\ call.session_id \in ActiveKeys
    /\ ~result.momentum_trailing_active

-----------------------------------------------------------------------------
(* What update_position writes to the RiskLevels it is given               *)

\* the levels as calculate_risk_levels returned them for this position
LevelsAsCalculated ==
    { IF engine = "risk_engine"
        THEN RiskLevelsOf(levels.entry_price, levels.direction, st, RInt(atr))
        ELSE Engine_RiskLevelsOf(levels.entry_price, levels.direction, st, RInt(atr)) :
        st \in Structures, atr \in Atrs }

\* C32: update_position changes nothing in the stored RiskLevels but the price
\* and type (with its reason) of the first stop, and those only in a call that
\* reports the move to breakeven: targets, the secondary and safety-net stops,
\* entry price, breakeven_price and the guarding-line parameters stay as they
\* were, and a call without a breakeven move leaves the levels as they are.
C32_LevelsFrame ==
    [][call'.op = "update_position" =>
          /\ levels' = [levels EXCEPT !.stops[1].price = levels'.stops[1].price,
                                      !.stops[1].type = levels'.stops[1].type]
          /\ ~result'.moved_to_breakeven => levels' = levels]_vars

\* after the move to breakeven everything but the first stop is as calculated
C32_Witness ==
    /\ call.op = "update_position"
    /\ levels.stops[1].type = "breakeven"
    /\ levels \notin LevelsAsCalculated
    /\ \E lv \in LevelsAsCalculated :
          /\ levels = [lv EXCEPT !.stops[1].price = levels.stops[1].price,
                                 !.stops[1].type = "breakeven"]
          /\ levels.targets = lv.targets
          /\ levels.guarding_line = lv.guarding_line

\* the price of the call is on or past the stop, on the loss side
AtOrBeyondStop(price, stop, direction) ==
    IF direction = "long" THEN RLe(price, stop) ELSE RGe(price, stop)

\* C33: in update_position of engine.py, a price at or beyond the primary stop
\* gives exit_signal with exit_percentage 100 and the stop-hit reason, whatever
\* the target or guarding-line block signalled earlier in the call; and the
\* call leaves original_levels as they were.
C33_StopHitOverrides ==
    [][(engine = "engine" /\ call'.op = "update_position") =>
          /\ levels' = levels
          /\ AtOrBeyondStop(call'.current_price, levels.stops[1].price, levels.direction) =>
                /\ result'.exit_signal
                /\ result'.exit_percentage = 100
                /\ result'.exit_reason = "stop"]_vars

\* a bar closing exactly on the stop, below a guarding line already broken
C33_Witness ==
    /\ engine = "engine"
    /\ call.op = "update_position"
    /\ call.current_price = levels.stops[1].price
    /\ result.guarding_broken
    /\ result.exit_reason = "stop"
    /\ result.exit_percentage = 100

-----------------------------------------------------------------------------
(* LivingTakeProfit (living_tp.py): targets identified at entry, marked    *)
(* hit and extended by update_targets                                      *)

\* LivingTakeProfit.__init__ defaults
MinStructureStrength == Rat(3, 10)
ConfluenceBonus == Rat(2, 10)
DynamicTargetThreshold == Rat(3, 2)
\* exit_pct of a target added after entry
DynamicExitPct == 25
FibLevels == <<Rat(1618, 1000), Rat(2618, 1000), Rat(4236, 1000)>>

StructuralTarget(price, structure_type, strength, touches) ==
    [price |-> price, structure_type |-> structure_type, strength |-> strength,
     touches |-> touches, exit_pct |-> RZero, is_dynamic |-> FALSE, hit |-> FALSE]

\* _find_resistance (direction long: swing highs above current_price) and
\* _find_support (short: swing lows below it): up to five [price, strength, touches]
_find_levels(series, closes, current_price, direction) ==
    LET side == IF direction = "long" THEN "short" ELSE "long"
        ahead(v) == IF direction = "long" THEN RGt(RInt(v), current_price)
                    ELSE RLt(RInt(v), current_price)
        idx == SortedSeq({i \in SwingIndices(series, side) :
                             i < 100 /\ ahead(series[i + 1])})
        touches(v) == Cardinality({k \in 1..Len(Prefix(series, 50)) :
                                      Abs(series[k] - v) * 1000 < 3 * v})
        broken(i) == \E k \in 1..Len(Prefix(closes, i)) :
                         IF direction = "long" THEN closes[k] > series[i + 1]
                         ELSE closes[k] < series[i + 1]
        level(i) == [price |-> RInt(series[i + 1]),
                     strength |-> RMul(RMin(RInt(1), Rat(touches(series[i + 1]), 4)),
                                       IF broken(i) THEN Rat(7, 10) ELSE RInt(1)),
                     touches |-> touches(series[i + 1])]
    IN  Prefix([k \in 1..Len(idx) |-> level(idx[k])], 5)

_calculate_fib_targets(entry, stop, direction) ==
    LET risk == RAbs(RSub(entry, stop))
    IN  [i \in 1..Len(FibLevels) |->
           StructuralTarget(IF direction = "long" THEN RAdd(entry, RMul(risk, FibLevels[i]))
                            ELSE RSub(entry, RMul(risk, FibLevels[i])),
                            "fib_extension", Rat(1, 2), 0)]

\* the first three round numbers beyond entry
_find_round_numbers(entry, direction) ==
    LET interval == IF RGt(entry, RInt(10000)) THEN 1000
                    ELSE IF RGt(entry, RInt(1000)) THEN 100
                    ELSE IF RGt(entry, RInt(100)) THEN 10
                    ELSE 1
        base == (entry[1] \div (entry[2] * interval)) * interval
        lvl(i) == IF direction = "long" THEN base + interval * i
                  ELSE base - interval * (i - 1)
        kept == SelectSeq([i \in 1..5 |-> lvl(i)],
                          LAMBDA v : IF direction = "long" THEN RGt(RInt(v), entry)
                                     ELSE RLt(RInt(v), entry))
    IN  [k \in 1..Len(Prefix(kept, 3)) |->
           StructuralTarget(RInt(kept[k]), "round_number", Rat(3, 10), 0)]

\* the inner loop of _apply_confluence for target i, from other j on: a bonus
\* for each other target that differs from it and lies within 0.5% of its price
RECURSIVE ConfluenceOf(_, _, _)
ConfluenceOf(targets, i, j) ==
    IF j > Len(targets) THEN targets
    ELSE IF j # i /\ targets[j] # targets[i]
            /\ RLt(RDiv(RAbs(RSub(targets[i].price, targets[j].price)), targets[i].price),
                   Rat(5, 1000))
      THEN ConfluenceOf([targets EXCEPT ![i].strength =
                                           RMin(RInt(1), RAdd(@, ConfluenceBonus))],
                        i, j + 1)
      ELSE ConfluenceOf(targets, i, j + 1)

RECURSIVE ApplyConfluenceFrom(_, _)
ApplyConfluenceFrom(targets, i) ==
    IF i > Len(targets) THEN targets
    ELSE ApplyConfluenceFrom(ConfluenceOf(targets, i, 1), i + 1)

_apply_confluence(targets) == ApplyConfluenceFrom(targets, 1)

RECURSIVE InsertByPrice(_, _, _)
InsertByPrice(x, q, direction) ==
    IF q = <<>> THEN <<x>>
    ELSE IF (IF direction = "long" THEN RLt(x.price, q[1].price)
             ELSE RGt(x.price, q[1].price))
      THEN <<x>> \o q
      ELSE <<q[1]>> \o InsertByPrice(x, Tail(q), direction)

\* targets.sort(key=price), reversed for short: stable, nearest to entry first
RECURSIVE SortByPrice(_, _)
SortByPrice(q, direction) ==
    IF q = <<>> THEN <<>>
    ELSE InsertByPrice(q[Len(q)], SortByPrice(SubSeq(q, 1, Len(q) - 1), direction),
                       direction)

\* an equal share of 100 for each of the first three targets, 0 for the rest
_assign_exit_percentages(targets) ==
    LET num_targets == IF Len(targets) < 3 THEN Len(targets) ELSE 3
    IN  [i \in 1..Len(targets) |->
           [targets[i] EXCEPT !.exit_pct = IF i <= 3 THEN Rat(100, num_targets)
                                           ELSE RZero]]

\* LivingTakeProfit.identify_targets: the object after the call
identify_targets(entry_price, direction, stop_price, highs, lows, closes) ==
    LET found == _find_levels(IF direction = "long" THEN highs ELSE lows, closes,
                              entry_price, direction)
        structural == [k \in 1..Len(found) |->
                         StructuralTarget(found[k].price,
                                          IF direction = "long" THEN "resistance"
                                          ELSE "support",
                                          found[k].strength, found[k].touches)]
        all == _apply_confluence(structural
                                 \o _calculate_fib_targets(entry_price, stop_price, direction)
                                 \o _find_round_numbers(entry_price, direction))
        strong == SelectSeq(all, LAMBDA t : RGe(t.strength, MinStructureStrength))
    IN  [direction |-> direction, entry_price |-> entry_price,
         risk_distance |-> RAbs(RSub(entry_price, stop_price)),
         active_targets |-> _assign_exit_percentages(SortByPrice(strong, direction))]

_calculate_r_multiple(obj, price) ==
    IF obj.risk_distance = RZero THEN RZero
    ELSE IF obj.direction = "long"
      THEN RDiv(RSub(price, obj.entry_price), obj.risk_distance)
      ELSE RDiv(RSub(obj.entry_price, price), obj.risk_distance)

\* up to two levels ahead of the price that are not yet targets
_add_dynamic_targets(obj, current_price, highs, lows) ==
    IF RLt(_calculate_r_multiple(obj, current_price), DynamicTargetThreshold) THEN <<>>
    ELSE LET ahead == Prefix(_find_levels(IF obj.direction = "long" THEN highs ELSE lows,
                                          <<>>, current_price, obj.direction), 2)
             existing == {obj.active_targets[i].price : i \in 1..Len(obj.active_targets)}
             fresh == SelectSeq(ahead, LAMBDA l : l.price \notin existing)
         IN  [k \in 1..Len(fresh) |->
                [StructuralTarget(fresh[k].price,
                                  IF obj.direction = "long" THEN "resistance"
                                  ELSE "support",
                                  fresh[k].strength, fresh[k].touches)
                   EXCEPT !.exit_pct = RInt(DynamicExitPct), !.is_dynamic = TRUE]]

TargetReached(obj, current_price, target) ==
    IF obj.direction = "long" THEN RGe(current_price, target.price)
    ELSE IF obj.direction = "short" THEN RLe(current_price, target.price)
    ELSE FALSE

\* the exit_pct left by the loop over the targets: that of the last one marked hit
ExitPctOfHits(targets, newly) ==
    IF newly = {} THEN RZero
    ELSE targets[CHOOSE i \in newly : \A j \in newly : i >= j].exit_pct

\* LivingTakeProfit.update_targets: [obj, exit_signal, exit_pct]
update_targets(obj, current_price, highs, lows) ==
    LET newly == {i \in 1..Len(obj.active_targets) :
                     /\ ~obj.active_targets[i].hit
                     /\ TargetReached(obj, current_price, obj.active_targets[i])}
        marked == [obj EXCEPT !.active_targets =
                      [i \in 1..Len(obj.active_targets) |->
                         IF i \in newly THEN [obj.active_targets[i] EXCEPT !.hit = TRUE]
                         ELSE obj.active_targets[i]]]
        current_r == _calculate_r_multiple(marked, current_price)
        rs == {_calculate_r_multiple(marked, marked.active_targets[i].price) :
                 i \in 1..Len(marked.active_targets)}
        highest_target_r == IF rs = {} THEN RZero
                            ELSE CHOOSE r \in rs : \A q \in rs : RGe(r, q)
        extended == IF RGt(current_r, RMul(highest_target_r, Rat(8, 10)))
                      THEN [marked EXCEPT !.active_targets =
                               @ \o _add_dynamic_targets(marked, current_price, highs, lows)]
                      ELSE marked
    IN  [obj |-> extended, exit_signal |-> newly # {},
         exit_pct |-> ExitPctOfHits(obj.active_targets, newly)]

(* ---- inputs ---- *)
TpEntries == {100}
TpStops == {98, 99}
\* highs at entry: two touches of 106; and one swing high at 104
EntryHighs == {<<101, 102, 106, 102, 101, 103, 106, 103, 102>>, <<101, 102, 104, 102, 101>>, <<>>}
EntryCloses == {<<>>, <<107, 101, 102, 101, 102>>}
\* highs during the trade: swing highs at 110 and 112, or none
TradeHighs == {<<105, 107, 110, 107, 105, 108, 112, 108, 106>>, <<>>}
TpPrices == {99, 101, 102, 104, 107, 111, 113}
\* the short trade with the same distances from entry
MirrorPrice(v, entry) == 2 * entry - v
MirrorSeries(q, entry) == [i \in 1..Len(q) |-> MirrorPrice(q[i], entry)]

\* LivingTakeProfit()
NewLivingTakeProfit == [direction |-> "", entry_price |-> RZero, risk_distance |-> RZero, active_targets |-> <<>>]

TpInit ==
    /\ ltp = NewLivingTakeProfit
    /\ tpret = [op |-> "init"]
    /\ SessionIdle
    /\ GuardIdle
    /\ MomentumIdle
    /\ EngineIdle
    /\ LevelsIdle
    /\ PairIdle

IdentifyTargets ==
    /\ \E entry \in TpEntries, direction \in {"long", "short"}, stop \in TpStops, hs \in EntryHighs, cs \in EntryCloses :
          LET m(q) == IF direction = "long" THEN q ELSE MirrorSeries(q, entry)
              stop_price == IF direction = "long" THEN stop ELSE MirrorPrice(stop, entry)
          IN  \E obj \in {identify_targets(RInt(entry), direction, RInt(stop_price), m(hs), m(hs), m(cs))} :
                 /\ ltp' = obj
                 /\ tpret' = [op |-> "identify_targets", targets |-> obj.active_targets]
    /\ UNCHANGED nonTpVars

UpdateTargets ==
    /\ \E entry \in TpEntries, price \in TpPrices, hs \in TradeHighs :
          LET m(q) == IF ltp.direction = "short" THEN MirrorSeries(q, entry) ELSE q
              current_price == IF ltp.direction = "short" THEN MirrorPrice(price, entry) ELSE price
          IN  \E out \in {update_targets(ltp, RInt(current_price), m(hs), m(hs))} :
                 /\ ltp' = out.obj
                 /\ tpret' = [op |-> "update_targets", current_price |-> RInt(current_price),
                              exit_signal |-> out.exit_signal, exit_pct |-> out.exit_pct]
    /\ UNCHANGED nonTpVars

TpNext == IdentifyTargets \/ UpdateTargets

TpSpec == TpInit /\ [][TpNext]_vars

-----------------------------------------------------------------------------
(* Exits signalled by update_targets *)

NewlyHit(before, after) == {i \in 1..Len(before) : ~before[i].hit /\ after[i].hit}

ExitPctSum(targets, S) == LET q == SortedSeq(S) IN RSumSeq([k \in 1..Len(q) |-> targets[q[k]].exit_pct])

\* C34: over any sequence of update_targets calls a target once marked hit stays
\* hit and is not signalled again, a call signals an exit exactly when it marks
\* a target hit, and the exit percentage it returns is the sum of exit_pct of
\* the targets it newly marks hit
C34_ExitPctIsSumOfNewHits ==
    [][tpret'.op = "update_targets" =>
          /\ \A i \in 1..Len(ltp.active_targets) :
                ltp.active_targets[i].hit => ltp'.active_targets[i].hit
          /\ tpret'.exit_signal <=> NewlyHit(ltp.active_targets, ltp'.active_targets) # {}
          /\ tpret'.exit_pct = ExitPctSum(ltp.active_targets,
                                          NewlyHit(ltp.active_targets, ltp'.active_targets))]_vars

\* what update_targets does keep: a hit target stays hit, and a call signals
\* exactly when it marks a target hit
EachTargetSignalledOnce ==
    [][tpret'.op = "update_targets" =>
          /\ \A i \in 1..Len(ltp.active_targets) :
                ltp.active_targets[i].hit => ltp'.active_targets[i].hit
          /\ tpret'.exit_signal <=> NewlyHit(ltp.active_targets, ltp'.active_targets) # {}]_vars

-----------------------------------------------------------------------------
(* Two positions updated through one RiskEngine (risk_engine.py)            *)

\* RiskEngine.update_position of risk_engine.py as a function of the levels
\* it is given and of self._momentum_states: [levels, states, result]
RiskEngine_update_position(lv, states, update, ohlcv, session_id) ==
    LET key == MomentumKey(session_id, lv.symbol)
        r0 == [NewRiskUpdate EXCEPT
                 !.current_r_multiple = CurrentRMultiple(lv, update.current_price)]
    IN  CHOOSE c7 \in
          { StructureStep(c6, update) : c6 \in
          { TrailStep(c5, update) : c5 \in
          { GuardingStep(c4, update) : c4 \in
          { TargetsStep(c3, update, key) : c3 \in
          { DivergenceStep(c2, ohlcv, key) : c2 \in
          { MomentumStep(c1, update, ohlcv, key) : c1 \in
          { BreakevenStep([levels |-> lv, states |-> states, result |-> r0],
                          update) } } } } } } } : TRUE

(* ---- inputs ---- *)
MaxPairCalls == 3
Positions == {"a", "b"}
OtherSymbol == "ETHUSDT"
\* the symbols, session ids and directions of positions a and b
PairSymbols == {<<Symbol, Symbol>>, <<Symbol, OtherSymbol>>}
PairSessionIds == {<<NoSessionId, NoSessionId>>, <<"s1", "s2">>, <<"s1", NoSessionId>>}
PairDirections == {<<"long", "long">>, <<"long", "short">>}
PairSnapshotNames == {"quiet", "uptrend", "extended", "drop"}
PairStructure == CHOOSE st \in Structures : TRUE
PairBars == {12}

PairInit ==
    /\ \E syms \in PairSymbols, sids \in PairSessionIds, dirs \in PairDirections :
          LET n(p) == IF p = "a" THEN 1 ELSE 2
              lv(p) == [RiskLevelsOf(RInt(100), dirs[n(p)], PairStructure, RInt(2))
                          EXCEPT !.symbol = syms[n(p)]]
          IN  pair = [calls |-> 0, last |-> "none",
                      states |-> <<>>,
                      pos |-> [p \in Positions |->
                                 [session_id |-> sids[n(p)],
                                  levels |-> lv(p), result |-> NewRiskUpdate,
                                  alone_states |-> <<>>,
                                  alone_levels |-> lv(p), alone_result |-> NewRiskUpdate]]]
    /\ SessionIdle
    /\ GuardIdle
    /\ MomentumIdle
    /\ EngineIdle
    /\ LevelsIdle
    /\ TpIdle

\* update_position for position p: by the engine that also manages the other
\* position, and with the same arguments by an engine that manages p only
PairUpdatePosition ==
    /\ pair.calls < MaxPairCalls
    /\ \E p \in Positions :
       \E sn \in {x \in Snapshots(pair.pos[p].levels.direction) : x.name \in PairSnapshotNames}, bars \in PairBars :
          LET me == pair.pos[p]
              update == PositionUpdateOf(sn, bars, me.levels.direction,
                                         me.levels.entry_price)
          IN  \E shared \in {RiskEngine_update_position(me.levels, pair.states, update,
                                                        sn.ohlcv, me.session_id)} :
              \E alone \in {RiskEngine_update_position(me.alone_levels, me.alone_states,
                                                       update, sn.ohlcv, me.session_id)} :
                 pair' = [pair EXCEPT !.calls = @ + 1,
                                      !.last = p,
                                      !.states = shared.states,
                                      !.pos[p].levels = shared.levels,
                                      !.pos[p].result = shared.result,
                                      !.pos[p].alone_states = alone.states,
                                      !.pos[p].alone_levels = alone.levels,
                                      !.pos[p].alone_result = alone.result]
    /\ UNCHANGED nonPairVars

PairNext == PairUpdatePosition

PairSpec == PairInit /\ [][PairNext]_vars

-----------------------------------------------------------------------------
(* Momentum state of one position among the positions of an engine *)

PairKey(p) == MomentumKey(pair.pos[p].session_id, pair.pos[p].levels.symbol)

\* the active flag and trailing level the engine holds under a key
MomentumOf(states, key) ==
    IF key \in DOMAIN states
      THEN [active |-> states[key].active, trailing_level |-> states[key].trailing_level]
      ELSE [active |-> FALSE, trailing_level |-> RZero]

MomentumAndExits(r) ==
    [active |-> r.momentum_trailing_active, trailing_level |-> r.momentum_trailing_level,
     exit_signal |-> r.exit_signal, exit_reason |-> r.exit_reason,
     exit_percentage |-> r.exit_percentage]

\* the update of position p gave it what the same update gives it in an engine
\* that manages no other position
AsIfAlone(p) ==
    /\ MomentumAndExits(pair.pos[p].result) = MomentumAndExits(pair.pos[p].alone_result)
    /\ MomentumOf(pair.states, PairKey(p)) = MomentumOf(pair.pos[p].alone_states, PairKey(p))

\* C31: whatever the interleaving of the updates of two positions, an update
\* gives its position the active flag, the trailing level and the exit signals
\* it would give it if it were the only position of the engine, also for two
\* positions on the same symbol, with or without session ids, in the same or
\* opposite direction
C31_MomentumStatePerPosition == \A p \in Positions : pair.last = p => AsIfAlone(p)

\* what the momentum-state map does give: positions with different keys do not
\* affect each other
DistinctKeysAsIfAlone == PairKey("a") # PairKey("b") => \A p \in Positions : AsIfAlone(p)

====
